---- MODULE Spec2Model ----
(* NHL-Beyond-27: the season collapser (build_ref_hockey.fix_std_one_file),   *)
(* the streak / aligned-window build (build_player_streaks_and_aligned.main)  *)
(* and the z-score builds (build_player_five_year_aligned_z[_cohort]).        *)
(* Strings that the code parses or normalises are sequences of one-character  *)
(* strings; a nullable number is <<>> (NULL / NaN) or <<n>>.                   *)
EXTENDS Integers, Sequences, FiniteSets, TLC

VARIABLES df, season_in, fixout, fixpc

VARIABLES source, streaks, aligned, built, edits

VARIABLES syears, sbuilt

VARIABLES ztab, zctab, zbuilt, zruns

VARIABLES label, resolved

VARIABLES df_out

VARIABLES spc, drivers, attempts, login_raised, exc, driver

fixVars == <<df, season_in, fixout, fixpc>>
dbVars == <<source, streaks, aligned, built, edits>>
streakVars == <<syears, sbuilt>>
zVars == <<ztab, zctab, zbuilt, zruns>>
seasonVars == <<label, resolved>>
alignVars == <<df_out>>
scrapeVars == <<spc, drivers, attempts, login_raised, exc, driver>>
vars == <<fixVars, dbVars, streakVars, zVars, seasonVars, alignVars, scrapeVars>>

\* ------------------------------------------------------------------ bounds
MaxRows == 3
NumSeasons == 6
MaxEdits == 2
NumStreakYears == 11
MaxZRuns == 2

\* ------------------------------------------------------------ generic helpers
Range(s) == {s[i] : i \in DOMAIN s}

NaN == <<>>
Num(n) == <<n>>
IsNaN(v) == v = <<>>

RECURSIVE SumSeq(_)
SumSeq(s) == IF s = <<>> THEN 0 ELSE Head(s) + SumSeq(Tail(s))

RECURSIVE Flatten(_)
Flatten(ss) == IF ss = <<>> THEN <<>> ELSE Head(ss) \o Flatten(Tail(ss))

\* ---------------------------------------------------------- character model
Digits == {"0", "1", "2", "3", "4", "5", "6", "7", "8", "9"}
UpperLetters == {"A", "B", "C", "L", "M", "N", "O", "S", "T", "W"}
LowerLetters == {"a", "b", "m", "n", "t"}
Spaces == {" "}

\* str.upper() / str.lower() on the characters the model uses
upper(c) ==
  CASE c = "a" -> "A" [] c = "b" -> "B" [] c = "m" -> "M"
    [] c = "n" -> "N" [] c = "t" -> "T" [] OTHER -> c

lower(c) ==
  CASE c = "A" -> "a" [] c = "B" -> "b" [] c = "M" -> "m"
    [] c = "N" -> "n" [] c = "T" -> "t" [] OTHER -> c

Upper(s) == [i \in DOMAIN s |-> upper(s[i])]
Lower(s) == [i \in DOMAIN s |-> lower(s[i])]

\* str.rstrip()
RECURSIVE rstrip(_)
rstrip(s) ==
  IF s = <<>> THEN s
  ELSE IF s[Len(s)] \in Spaces THEN rstrip(SubSeq(s, 1, Len(s) - 1)) ELSE s

\* str.lstrip()
RECURSIVE lstrip(_)
lstrip(s) ==
  IF s = <<>> THEN s
  ELSE IF Head(s) \in Spaces THEN lstrip(Tail(s)) ELSE s

strip(s) == lstrip(rstrip(s))

\* str.replace(r"\s+", " ", regex=True): every run of whitespace becomes one space
RECURSIVE collapse_ws(_)
collapse_ws(s) ==
  IF s = <<>> THEN s
  ELSE IF Head(s) \in Spaces
       THEN <<" ">> \o collapse_ws(lstrip(s))
       ELSE <<Head(s)>> \o collapse_ws(Tail(s))

\* code-point order of the characters the model uses
CharRank(c) ==
  CASE c = " " -> 0 [] c = "-" -> 1 [] c = "." -> 2
    [] c = "0" -> 10 [] c = "1" -> 11 [] c = "2" -> 12 [] c = "3" -> 13
    [] c = "4" -> 14 [] c = "5" -> 15 [] c = "6" -> 16 [] c = "7" -> 17
    [] c = "8" -> 18 [] c = "9" -> 19
    [] c = "A" -> 20 [] c = "B" -> 21 [] c = "C" -> 22 [] c = "L" -> 23
    [] c = "M" -> 24 [] c = "N" -> 25 [] c = "O" -> 26 [] c = "S" -> 27
    [] c = "T" -> 28 [] c = "W" -> 29
    [] c = "a" -> 30 [] c = "b" -> 31 [] c = "m" -> 32 [] c = "n" -> 33
    [] c = "p" -> 34 [] c = "q" -> 35 [] c = "t" -> 36 [] OTHER -> 99

\* Python's string comparison
RECURSIVE StrLess(_, _)
StrLess(s, t) ==
  IF t = <<>> THEN FALSE
  ELSE IF s = <<>> THEN TRUE
  ELSE IF Head(s) = Head(t) THEN StrLess(Tail(s), Tail(t))
  ELSE CharRank(Head(s)) < CharRank(Head(t))

MinStr(S) == CHOOSE s \in S : \A t \in S : t = s \/ StrLess(s, t)

\* sorted(S) for a set of strings
RECURSIVE SortStrs(_)
SortStrs(S) ==
  IF S = {} THEN <<>> ELSE <<MinStr(S)>> \o SortStrs(S \ {MinStr(S)})

\* ------------------------------------------------- build_ref_hockey: frames
\* A frame is [cols |-> <<column names in order>>, rows |-> <<rows>>]; a row
\* is a record with one field per column the model knows, a column that the
\* frame does not have holding <<>>.
HasCol(e, c) == \E i \in DOMAIN e.cols : e.cols[i] = c

NumericCols == {"gp", "age"}

RECURSIVE DigitsOf(_)
DigitsOf(n) ==
  LET d == <<"0", "1", "2", "3", "4", "5", "6", "7", "8", "9">>[(n % 10) + 1]
  IN IF n < 10 THEN <<d>> ELSE DigitsOf(n \div 10) \o <<d>>

\* Series.astype(str) of one cell: NaN prints as "nan", a number of a float
\* column (one that holds a NaN) as "<n>.0"
CellStr(e, i, c) ==
  LET v == e.rows[i][c]
  IN IF c \in NumericCols
     THEN IF IsNaN(v) THEN <<"n", "a", "n">>
          ELSE DigitsOf(v[1]) \o
               (IF \E j \in DOMAIN e.rows : IsNaN(e.rows[j][c])
                THEN <<".", "0">> ELSE <<>>)
     ELSE v

\* _NTM_RE = ^\d+TM$ with IGNORECASE
_NTM_RE(s) ==
  LET n == Len(s)
  IN /\ n >= 3
     /\ upper(s[n - 1]) = "T"
     /\ upper(s[n]) = "M"
     /\ \A i \in 1 .. (n - 2) : s[i] \in Digits

\* the regex ^(?:[A-Z]{2,3}|TOT|\d+TM)$ of the team auto-detection, applied
\* to str(value).strip().upper()
LooksLikeCode(s) ==
  LET u == Upper(strip(s))
  IN \/ (Len(u) \in {2, 3} /\ \A i \in DOMAIN u : u[i] \in UpperLetters)
     \/ u = <<"T", "O", "T">>
     \/ _NTM_RE(u)

MatchCount(e, c) ==
  Cardinality({i \in DOMAIN e.rows : LooksLikeCode(CellStr(e, i, c))})

\* the auto-detected team column: the first column, in column order, with
\* the highest share of code-like values, provided that share is >= 30%;
\* 0 when there is none
AutoDetectTm(e) ==
  LET n == Len(e.rows)
      cand == {k \in DOMAIN e.cols : 10 * MatchCount(e, e.cols[k]) >= 3 * n}
  IN IF cand = {} THEN 0
     ELSE CHOOSE k \in cand :
            \A j \in cand :
              \/ MatchCount(e, e.cols[j]) < MatchCount(e, e.cols[k])
              \/ (MatchCount(e, e.cols[j]) = MatchCount(e, e.cols[k]) /\ k <= j)

\* the key tidying shared by _coerce_std_required_columns and
\* _post_name_normalization
TidyRow(e, r) ==
  [r EXCEPT
     !.player = IF HasCol(e, "player") THEN Lower(rstrip(collapse_ws(@))) ELSE @,
     !.tm     = IF HasCol(e, "tm") THEN Upper(rstrip(@)) ELSE @,
     !.season = IF HasCol(e, "season") THEN rstrip(@) ELSE @,
     !.pos    = IF HasCol(e, "pos") THEN Upper(rstrip(@)) ELSE @]

_post_name_normalization(e) ==
  [e EXCEPT !.rows = [i \in DOMAIN e.rows |-> TidyRow(e, e.rows[i])]]

_coerce_std_required_columns(e) ==
  LET k == IF HasCol(e, "tm") THEN 0 ELSE AutoDetectTm(e)
      renamed ==
        IF k = 0 THEN e
        ELSE [cols |-> [j \in DOMAIN e.cols |-> IF j = k THEN "tm" ELSE e.cols[j]],
              rows |-> [i \in DOMAIN e.rows |->
                          [e.rows[i] EXCEPT ![e.cols[k]] = <<>>,
                                             !.tm = CellStr(e, i, e.cols[k])]]]
  IN _post_name_normalization(renamed)

Key(r) == <<r.player, r.season>>

Keys(rows) == {Key(rows[i]) : i \in DOMAIN rows}

Group(rows, k) == SelectSeq(rows, LAMBDA r : Key(r) = k)

\* groupby(["player", "season"]) visits the groups in sorted key order; all
\* rows of a frame carry the same season
SortedKeys(rows) ==
  LET ps == SortStrs({k[1] : k \in Keys(rows)})
  IN Flatten([i \in DOMAIN ps |->
                LET ss == SortStrs({k[2] : k \in {x \in Keys(rows) : x[1] = ps[i]}})
                IN [j \in DOMAIN ss |-> <<ps[i], ss[j]>>]])

\* a sum that keeps the value of the group's first row
SumCol_first(g, c) == g[1][c]

\* pandas groupby(...).sum(): NaN is skipped, an all-NaN group sums to 0
SumCol(g, c) ==
  Num(SumSeq([i \in DOMAIN g |-> IF IsNaN(g[i][c]) THEN 0 ELSE g[i][c][1]]))

\* _mode_or_first: Series.mode() lists the most frequent values in sorted
\* order and the code takes the first of them
_mode_or_first(s) ==
  LET cnt(v) == Cardinality({i \in DOMAIN s : s[i] = v})
      modes == {v \in Range(s) : \A w \in Range(s) : cnt(w) <= cnt(v)}
  IN MinStr(modes)

TOT == <<"T", "O", "T">>

\* a pass 1 that keeps the groups with an nTM row only
Pass1_ntmonly(rows) ==
  LET ks == SortedKeys(rows)
      kept == Flatten([i \in DOMAIN ks |->
                LET ntm == SelectSeq(Group(rows, ks[i]), LAMBDA r : _NTM_RE(r.tm))
                IN IF ntm # <<>> THEN <<ntm[1]>> ELSE <<>>])
  IN [i \in DOMAIN kept |-> [kept[i] EXCEPT !.tm = TOT]]

\* Pass 1: per group keep the first nTM row, or every row when there is none;
\* the kept nTM rows are relabelled TOT
Pass1(rows) ==
  LET ks == SortedKeys(rows)
      kept == Flatten([i \in DOMAIN ks |->
                LET g == Group(rows, ks[i])
                    ntm == SelectSeq(g, LAMBDA r : _NTM_RE(r.tm))
                IN IF ntm # <<>> THEN <<ntm[1]>> ELSE g])
  IN [i \in DOMAIN kept |->
        IF _NTM_RE(kept[i].tm) THEN [kept[i] EXCEPT !.tm = TOT] ELSE kept[i]]

\* the synthetic TOT row of one multi-row group
AggRow(e, g) ==
  [player |-> g[1].player,
   season |-> g[1].season,
   tm     |-> TOT,
   pos    |-> IF HasCol(e, "pos")
              THEN _mode_or_first([i \in DOMAIN g |-> g[i].pos]) ELSE <<>>,
   gp     |-> IF HasCol(e, "gp") THEN SumCol(g, "gp") ELSE <<>>,
   age    |-> IF HasCol(e, "age") THEN SumCol(g, "age") ELSE <<>>]

\* DataFrame.drop_duplicates(subset=["player", "season"], keep="first")
drop_duplicates(rows) ==
  SelectSeq([i \in DOMAIN rows |->
               [r |-> rows[i],
                first |-> \A j \in 1 .. (i - 1) : Key(rows[j]) # Key(rows[i])]],
            LAMBDA x : x.first)

Unwrap(xs) == [i \in DOMAIN xs |-> xs[i].r]

SortedColNames == <<"age", "gp", "player", "pos", "season", "tm">>

\* Pass 2: every group that still has several rows becomes one synthetic row,
\* appended after the single-row groups; the columns come out sorted
Pass2(e) ==
  LET multi == {k \in Keys(e.rows) : Len(Group(e.rows, k)) > 1}
      mk == SelectSeq(SortedKeys(e.rows), LAMBDA k : k \in multi)
      e_unique == SelectSeq(e.rows, LAMBDA r : Key(r) \notin multi)
      agg_df == [i \in DOMAIN mk |-> AggRow(e, Group(e.rows, mk[i]))]
  IN IF multi = {} THEN e
     ELSE [cols |-> SelectSeq(SortedColNames, LAMBDA c : HasCol(e, c)),
           rows |-> e_unique \o agg_df]

\* e["season"] = season_str followed by the column coercion
Prepared(frame, season_str) ==
  _coerce_std_required_columns(
    [cols |-> IF HasCol(frame, "season") THEN frame.cols
              ELSE Append(frame.cols, "season"),
     rows |-> [i \in DOMAIN frame.rows |->
                 [frame.rows[i] EXCEPT !.season = season_str]]])

fix_std_one_file(frame, season_str) ==
  IF frame.rows = <<>> THEN frame
  ELSE
    LET e1 == Prepared(frame, season_str)
    IN IF ~(HasCol(e1, "player") /\ HasCol(e1, "tm") /\ HasCol(e1, "season"))
       THEN e1
       ELSE
         LET e2 == _post_name_normalization(e1)
             e3 == [e2 EXCEPT !.rows = Pass1(e2.rows)]
             e4 == Pass2(e3)
         IN [e4 EXCEPT !.rows = Unwrap(drop_duplicates(e4.rows))]

\* ------------------------------------- build_player_streaks_and_aligned.py
\* One value space for SQL and Python scalars: SQL has NULL, numbers and the
\* numeric NaN; Python (pandas) has numbers, float NaN and None.
NULL == [k |-> "null", v |-> 0, n |-> 0, d |-> 0]
NONE == [k |-> "none", v |-> 0, n |-> 0, d |-> 0]
NANV == [k |-> "nan", v |-> 0, n |-> 0, d |-> 0]
Val(x) == [k |-> "num", v |-> x, n |-> 0, d |-> 0]
IsNum(x) == x.k = "num"

DigitVal(c) ==
  CASE c = "0" -> 0 [] c = "1" -> 1 [] c = "2" -> 2 [] c = "3" -> 3 [] c = "4" -> 4
    [] c = "5" -> 5 [] c = "6" -> 6 [] c = "7" -> 7 [] c = "8" -> 8 [] c = "9" -> 9

\* SEASON_RE = ^\d{2}-\d{2}$, also the regex of the WHERE clause
SEASON_RE(s) ==
  /\ Len(s) = 5
  /\ s[1] \in Digits /\ s[2] \in Digits
  /\ s[3] = "-"
  /\ s[4] \in Digits /\ s[5] \in Digits

\* a resolver that takes every season to be of the 2000s
season_to_start_year_2000s(s) ==
  IF s = <<>> \/ ~SEASON_RE(s) THEN <<>>
  ELSE <<2000 + 10 * DigitVal(s[1]) + DigitVal(s[2])>>

\* season_to_start_year: <<>> stands for None
season_to_start_year(s) ==
  IF s = <<>> \/ ~SEASON_RE(s) THEN <<>>
  ELSE LET yy == 10 * DigitVal(s[1]) + DigitVal(s[2])
       IN IF yy >= 50 THEN <<1900 + yy>> ELSE <<2000 + yy>>

RECURSIVE SortInts(_)
SortInts(S) ==
  IF S = {} THEN <<>>
  ELSE LET m == CHOOSE x \in S : \A y \in S : x <= y
       IN <<m>> \o SortInts(S \ {m})

\* the loop of streaks_from_years over ys[1:], with the run in progress
\* (run_s, prev) and the runs closed so far
RECURSIVE ScanRuns(_, _, _, _)
ScanRuns(ys, run_s, prev, out) ==
  IF ys = <<>> THEN Append(out, <<run_s, prev, prev - run_s + 1>>)
  ELSE IF Head(ys) = prev + 1
       THEN ScanRuns(Tail(ys), run_s, Head(ys), out)
       ELSE ScanRuns(Tail(ys), Head(ys), Head(ys),
                     Append(out, <<run_s, prev, prev - run_s + 1>>))

\* streaks_from_years without sorted(set(years)): the scan runs over the
\* years as they were read
streaks_from_years_unsorted(years) ==
  IF years = <<>> THEN <<>> ELSE ScanRuns(Tail(years), years[1], years[1], <<>>)

streaks_from_years(years) ==
  LET ys == SortInts(Range(years))
  IN IF ys = <<>> THEN <<>> ELSE ScanRuns(Tail(ys), ys[1], ys[1], <<>>)

\* a max that keeps the last run of maximal length
MaxRun_last(runs) ==
  LET i == CHOOSE i \in DOMAIN runs :
             /\ \A j \in DOMAIN runs : runs[j][3] <= runs[i][3]
             /\ \A j \in (i + 1) .. Len(runs) : runs[j][3] < runs[i][3]
  IN runs[i]

\* max(runs, key=lambda t: t[2]): the first run of maximal length
MaxRun(runs) ==
  LET i == CHOOSE i \in DOMAIN runs :
             /\ \A j \in DOMAIN runs : runs[j][3] <= runs[i][3]
             /\ \A j \in 1 .. (i - 1) : runs[j][3] < runs[i][3]
  IN runs[i]

\* ONE_ROW_VIEW_SQL over a table with one row per (player, season): the sums
\* run over that one row, so toi_sum is its time_on_ice, cf_cnt is
\* "CF/60" * time_on_ice / 60 and ca_cnt is "CA/60" * time_on_ice / 60, each
\* NULL when a factor is; cf60 = 60 * cf_cnt / NULLIF(toi_sum, 0) is the rate
\* again, and cf_pct = 100 * cf_cnt / NULLIF(cf_cnt + ca_cnt, 0)
ViewRowOf(r) ==
  LET t == r.time_on_ice
      dead == t = NULL \/ t = Val(0)
      cf == r.cf_rate
      ca == r.ca_rate
  IN [player |-> r.player, season |-> r.season, age |-> r.age,
      time_on_ice |-> t,
      cf60 |-> IF dead THEN NULL ELSE cf,
      ca60 |-> IF dead THEN NULL ELSE ca,
      cf_pct |-> IF dead \/ cf = NULL \/ ca = NULL THEN NULL
                 ELSE IF cf.v + ca.v = 0 THEN NULL
                 ELSE Val((100 * cf.v) \div (cf.v + ca.v)),
      position |-> r.position]

ONE_ROW_VIEW(raw) == {ViewRowOf(r) : r \in raw}

\* pd.read_sql_query: a NULL becomes None when the whole column is NULL and
\* NaN otherwise; numbers come back as numbers
ReadCell(rows, c, x) ==
  IF x # NULL THEN x
  ELSE IF \A r \in rows : r[c] = NULL THEN NONE ELSE NANV

NullableCols == {"age", "time_on_ice", "cf_pct", "cf60", "ca60"}

\* fetch_source_df: the view's rows with a 'YY-YY' season, in the order the
\* database returns them (sorted by player and season, or the reverse)
RowBefore(r1, r2) ==
  \/ StrLess(r1.player, r2.player)
  \/ (r1.player = r2.player /\ StrLess(r1.season, r2.season))

RECURSIVE InsertRow(_, _)
InsertRow(q, r) ==
  IF q = <<>> THEN <<r>>
  ELSE IF RowBefore(r, Head(q)) THEN <<r>> \o q
  ELSE <<Head(q)>> \o InsertRow(Tail(q), r)

RECURSIVE SortRows(_)
SortRows(S) ==
  IF S = {} THEN <<>>
  ELSE LET r == CHOOSE x \in S : TRUE
       IN InsertRow(SortRows(S \ {r}), r)

Reverse(q) == [i \in DOMAIN q |-> q[Len(q) + 1 - i]]

\* a read that loses a row when the rows come in the reverse order
fetch_source_df_lossy(view, rev) ==
  LET rows == {r \in view : SEASON_RE(r.season)}
      conv(r) == [c \in DOMAIN r |->
                    IF c \in NullableCols THEN ReadCell(rows, c, r[c]) ELSE r[c]]
      q == SortRows({conv(r) : r \in rows})
  IN IF rev /\ q # <<>> THEN Tail(Reverse(q)) ELSE q

fetch_source_df(view, rev) ==
  LET rows == {r \in view : SEASON_RE(r.season)}
      conv(r) == [c \in DOMAIN r |->
                    IF c \in NullableCols THEN ReadCell(rows, c, r[c]) ELSE r[c]]
      q == SortRows({conv(r) : r \in rows})
  IN IF rev THEN Reverse(q) ELSE q

\* step 4 of main: the rows read, each with its start year sy; a row whose
\* season does not parse is skipped
ParsedRows(frame) ==
  SelectSeq([i \in DOMAIN frame |->
               [r |-> frame[i], sy |-> season_to_start_year(frame[i].season)]],
            LAMBDA x : x.sy # <<>>)

PlayersOf(parsed) == {parsed[i].r.player : i \in DOMAIN parsed}

RowsOfPlayer(parsed, p) == SelectSeq(parsed, LAMBDA x : x.r.player = p)

\* years_by_player[p] for the rows of one player, in read order
YearsOf(mine) == [i \in DOMAIN mine |-> mine[i].sy[1]]

\* metrics[(p, y)]: the last row read for that key; <<>> when there is none
Metrics(mine, y) ==
  LET at == SelectSeq(mine, LAMBDA x : x.sy = <<y>>)
  IN IF at = <<>> THEN <<>>
     ELSE LET r == at[Len(at)].r
          IN <<[season |-> r.season, age |-> r.age, cf_pct |-> r.cf_pct,
                cf60 |-> r.cf60, ca60 |-> r.ca60,
                toi_min |-> r.time_on_ice,
                position |-> r.position]>>

\* str(y)[2:] for a four-digit year
YearTail(y) == SubSeq(DigitsOf(y), 3, 4)

\* step 5 with the season list running one year past the end of the run
StreakRowsOf_overrun(mine, p) ==
  LET runs == streaks_from_years(YearsOf(mine))
  IN IF runs = <<>> THEN {}
     ELSE LET best == MaxRun(runs)
          IN IF best[3] >= 5
             THEN {[player |-> p, start_year |-> best[1], end_year |-> best[2],
                    streak_len |-> best[3],
                    seasons |-> [i \in 1 .. (best[2] - best[1] + 2) |->
                                   LET y == best[1] + i - 1
                                       m == Metrics(mine, y)
                                   IN IF m # <<>> THEN m[1].season
                                      ELSE YearTail(y) \o <<"-">> \o YearTail(y + 1)]]}
             ELSE {}

\* step 5 of main: the streak row of one player, if one is built
StreakRowsOf(mine, p) ==
  LET runs == streaks_from_years(YearsOf(mine))
  IN IF runs = <<>> THEN {}
     ELSE LET best == MaxRun(runs)
          IN IF best[3] >= 5
             THEN {[player |-> p, start_year |-> best[1], end_year |-> best[2],
                    streak_len |-> best[3],
                    seasons |-> [i \in 1 .. (best[2] - best[1] + 1) |->
                                   LET y == best[1] + i - 1
                                       m == Metrics(mine, y)
                                   IN IF m # <<>> THEN m[1].season
                                      ELSE YearTail(y) \o <<"-">> \o YearTail(y + 1)]]}
             ELSE {}

streak_rows(parsed) ==
  UNION {StreakRowsOf(RowsOfPlayer(parsed, p), p) : p \in PlayersOf(parsed)}

WindowAges == <<25, 26, 27, 28, 29>>
AnchorAge == 27
MinAvgToi == 500

\* by_age filled in read order instead of over sorted(set(years)): the first
\* season read at age a
by_age_firstread(mine, a) ==
  LET ys == YearsOf(mine)
      hit == SelectSeq([i \in DOMAIN ys |-> [y |-> ys[i], m |-> Metrics(mine, ys[i])[1]]],
                       LAMBDA x : x.m.age = Val(a))
  IN IF hit = <<>> THEN <<>> ELSE <<hit[1]>>

\* step 6 of main: by_age[a] = (y, m) for the earliest year y of the player
\* whose metrics carry age a; <<>> when no year does
by_age(mine, a) ==
  LET ys == SortInts(Range(YearsOf(mine)))
      hit == SelectSeq([i \in DOMAIN ys |-> [y |-> ys[i], m |-> Metrics(mine, ys[i])[1]]],
                       LAMBDA x : x.m.age = Val(a))
  IN IF hit = <<>> THEN <<>> ELSE <<hit[1]>>

\* any(t is None or t <= 0 for t in toi_list): NaN <= 0 is False
ToiMissingOrNonPositive(toi_list) ==
  \E i \in DOMAIN toi_list :
    toi_list[i] = NONE \/ (IsNum(toi_list[i]) /\ toi_list[i].v <= 0)

\* sum(toi_list) / 5.0 < 500.0: a NaN in the list makes the sum NaN and the
\* comparison False
ToiAverageTooLow(toi_list) ==
  /\ \A i \in DOMAIN toi_list : IsNum(toi_list[i])
  /\ SumSeq([i \in DOMAIN toi_list |-> toi_list[i].v]) < Len(WindowAges) * MinAvgToi

\* what the INSERT stores for a Python value: None is NULL, NaN the numeric NaN
ToDb(x) == IF x = NONE THEN NULL ELSE x

\* step 6 with every row of the window written at rel_age 0
AlignedRowsOf_norel(mine, p) ==
  LET slots == Flatten([i \in DOMAIN WindowAges |-> by_age(mine, WindowAges[i])])
  IN IF Len(slots) < Len(WindowAges) THEN {}
     ELSE
       LET toi_list == [i \in DOMAIN slots |-> slots[i].m.toi_min]
           anchor_year == slots[AnchorAge - WindowAges[1] + 1].y
       IN IF ToiMissingOrNonPositive(toi_list) THEN {}
          ELSE IF ToiAverageTooLow(toi_list) THEN {}
          ELSE {[player |-> p, peak_year |-> anchor_year,
                 rel_age |-> 0,
                 start_year |-> slots[i].y, season |-> slots[i].m.season,
                 age |-> WindowAges[i],
                 cf_pct |-> ToDb(slots[i].m.cf_pct), cf60 |-> ToDb(slots[i].m.cf60),
                 ca60 |-> ToDb(slots[i].m.ca60), position |-> slots[i].m.position] :
                  i \in DOMAIN WindowAges}

AlignedRowsOf(mine, p) ==
  LET slots == Flatten([i \in DOMAIN WindowAges |-> by_age(mine, WindowAges[i])])
  IN IF Len(slots) < Len(WindowAges) THEN {}
     ELSE
       LET toi_list == [i \in DOMAIN slots |-> slots[i].m.toi_min]
           anchor_year == slots[AnchorAge - WindowAges[1] + 1].y
       IN IF ToiMissingOrNonPositive(toi_list) THEN {}
          ELSE IF ToiAverageTooLow(toi_list) THEN {}
          ELSE {[player |-> p, peak_year |-> anchor_year,
                 rel_age |-> WindowAges[i] - AnchorAge,
                 start_year |-> slots[i].y, season |-> slots[i].m.season,
                 age |-> WindowAges[i],
                 cf_pct |-> ToDb(slots[i].m.cf_pct), cf60 |-> ToDb(slots[i].m.cf60),
                 ca60 |-> ToDb(slots[i].m.ca60), position |-> slots[i].m.position] :
                  i \in DOMAIN WindowAges}

aligned_rows(parsed) ==
  UNION {AlignedRowsOf(RowsOfPlayer(parsed, p), p) : p \in PlayersOf(parsed)}

\* primary keys of the two destination tables
StreakKey == <<"player", "start_year", "end_year">>
AlignedKey == <<"player", "peak_year", "rel_age">>

KeyOf(r, key) == [i \in DOMAIN key |-> r[key[i]]]

\* INSERT ... ON CONFLICT (key) DO NOTHING
Upsert_donothing(table, batch, key) ==
  table \cup {b \in batch : \A r \in table : KeyOf(b, key) # KeyOf(r, key)}

\* INSERT ... ON CONFLICT (key) DO UPDATE
Upsert(table, batch, key) ==
  {r \in table : \A b \in batch : KeyOf(b, key) # KeyOf(r, key)} \cup batch

\* ------------------------------------------ specification of the collapser
FullCols == <<"player", "tm", "pos", "gp", "age">>
NoTmCols == <<"player", "pos", "gp", "age">>

PlayerNames == {<<"a">>, <<"A", " ">>, <<"b">>}
TeamCodes == {<<"B", "O", "S">>, <<"T", "O", "T">>, <<"2", "t", "m">>}
SeasonStrs == {<<"1", "3", "-", "1", "4">>, <<"1", "4", "-", "1", "5", " ">>}

\* a player has one age in a season
AgeOf(p) == IF Lower(rstrip(p)) = <<"a">> THEN Num(25) ELSE Num(30)

Profiles(cols) ==
  {[gp |-> Num(1), pos |-> <<"L", "W">>], [gp |-> NaN, pos |-> <<"C">>]}
  \cup (IF cols = NoTmCols THEN {[gp |-> Num(1), pos |-> <<"C">>]} ELSE {})

RowPool(cols) ==
  {[player |-> p, season |-> <<>>, tm |-> t, pos |-> f.pos, gp |-> f.gp,
    age |-> AgeOf(p)] :
     p \in PlayerNames,
     t \in (IF cols = FullCols THEN TeamCodes ELSE {<<>>}),
     f \in Profiles(cols)}

EmptyFrame == [cols |-> <<>>, rows |-> <<>>]

\* no streak step and no z-score build has run
NoStreakRun == [ran |-> FALSE, rows |-> {}, years |-> <<>>, runs |-> <<>>]
\* the outcome of the last z-score run: none yet
NoZRun == [ran |-> FALSE, cohort |-> FALSE, rows |-> {}, error |-> "none", pipeline |-> FALSE]
StreakIdle == syears = {} /\ sbuilt = NoStreakRun
ZIdle == ztab = {} /\ zctab = {} /\ zbuilt = NoZRun /\ zruns = 0

\* no season label is being resolved
NoLabel == [none |-> TRUE, s |-> <<>>]
Unresolved == [ran |-> FALSE, val |-> <<>>]
NotResolved == [main |-> Unresolved, align |-> Unresolved]
SeasonIdle == label = NoLabel /\ resolved = NotResolved

\* build_aligned_df has not run
NoAlignRun == [ran |-> FALSE, raised |-> "none", rows |-> {}]
AlignIdle == df_out = NoAlignRun

\* the scraper is not running
ScrapeIdle ==
  /\ spc = "off" /\ drivers = <<>> /\ attempts = 0
  /\ login_raised = <<>> /\ exc = "none" /\ driver = 0

FixInit ==
  /\ StreakIdle /\ ZIdle /\ SeasonIdle /\ AlignIdle /\ ScrapeIdle
  /\ df \in {[cols |-> FullCols, rows |-> <<>>], [cols |-> NoTmCols, rows |-> <<>>]}
  /\ season_in = <<>>
  /\ fixout = EmptyFrame
  /\ fixpc = "input"
  /\ source = {} /\ streaks = {} /\ aligned = {} /\ built = [ran |-> FALSE] /\ edits = 0

\* one more row of the season file that is being read
AddRow ==
  /\ fixpc = "input"
  /\ Len(df.rows) < MaxRows
  /\ \E r \in RowPool(df.cols) : df' = [df EXCEPT !.rows = Append(@, r)]
  /\ UNCHANGED <<season_in, fixout, fixpc, dbVars, streakVars, zVars, seasonVars, alignVars, scrapeVars>>

FixStdOneFile ==
  /\ fixpc = "input"
  /\ \E s \in SeasonStrs :
       /\ season_in' = s
       /\ fixout' = fix_std_one_file(df, s)
  /\ fixpc' = "done"
  /\ UNCHANGED <<df, dbVars, streakVars, zVars, seasonVars, alignVars, scrapeVars>>

FixNext == AddRow \/ FixStdOneFile

SpecFix == FixInit /\ [][FixNext]_vars

\* -------------------------------------------------- claims on the collapser
KeysResolved(e) == HasCol(e, "player") /\ HasCol(e, "tm") /\ HasCol(e, "season")

IsTotalToken(tm) == tm = TOT \/ _NTM_RE(tm)

OutRowsOf(k) == {i \in DOMAIN fixout.rows : Key(fixout.rows[i]) = k}

\* C1: the frame fix_std_one_file returns has at most one row per
\* (player, season) pair, for every input frame and season string.
C1_AtMostOneRowPerPlayerSeason ==
  (fixpc = "done" /\ HasCol(fixout, "player") /\ HasCol(fixout, "season")) =>
    \A i, j \in DOMAIN fixout.rows :
      Key(fixout.rows[i]) = Key(fixout.rows[j]) => i = j

\* C2: a group with a total-pattern row ('TOT' or nTM) comes out as one row
\* with team 'TOT' whose numeric fields are those of the first such row.
C2_TotalRowKeptVerbatim ==
  fixpc = "done" =>
    LET e == Prepared(df, season_in)
    IN KeysResolved(e) =>
         \A k \in Keys(e.rows) :
           LET tot == SelectSeq(Group(e.rows, k), LAMBDA r : IsTotalToken(r.tm))
           IN tot # <<>> =>
                /\ Cardinality(OutRowsOf(k)) = 1
                /\ \A i \in OutRowsOf(k) :
                     /\ fixout.rows[i].tm = TOT
                     /\ \A c \in NumericCols :
                          HasCol(e, c) => fixout.rows[i][c] = tot[1][c]

RECURSIVE GroupTotal(_, _, _)
GroupTotal(rows, k, c) ==
  IF rows = <<>> THEN 0
  ELSE (IF Key(Head(rows)) = k /\ ~IsNaN(Head(rows)[c]) THEN Head(rows)[c][1] ELSE 0)
       + GroupTotal(Tail(rows), k, c)

MultiTeamKeys(e) ==
  {k \in Keys(e.rows) :
     /\ Len(Group(e.rows, k)) > 1
     /\ \A r \in Range(Group(e.rows, k)) : ~IsTotalToken(r.tm)}

\* C3: a group with no total-pattern row and N > 1 team rows comes out as
\* exactly one row, with team 'TOT', in which every numeric column is the sum
\* of that column over the N rows, a missing value counting as 0.
C3_MultiTeamGroupSummed ==
  fixpc = "done" =>
    LET e == Prepared(df, season_in)
    IN KeysResolved(e) =>
         \A k \in MultiTeamKeys(e) :
           /\ Cardinality(OutRowsOf(k)) = 1
           /\ \A i \in OutRowsOf(k) :
                /\ fixout.rows[i].tm = TOT
                /\ \A c \in NumericCols :
                     HasCol(e, c) => fixout.rows[i][c] = Num(GroupTotal(e.rows, k, c))

\* a three-row multi-team group with a missing games-played value, next to
\* nothing else, has been collapsed
C3_Witness ==
  /\ fixpc = "done"
  /\ LET e == Prepared(df, season_in)
     IN /\ KeysResolved(e)
        /\ df.cols = FullCols
        /\ \E k \in MultiTeamKeys(e) :
             /\ \E r \in Range(Group(e.rows, k)) : IsNaN(r.gp)
             /\ GroupTotal(e.rows, k, "gp") = 2

\* ---------------------------- specification of the streak / aligned build
P == <<"p">>
Q == <<"q">>
Players == {P, Q}

TwoDigits(n) ==
  LET d == <<"0", "1", "2", "3", "4", "5", "6", "7", "8", "9">>
  IN <<d[(n \div 10) + 1], d[(n % 10) + 1]>>

\* the 'YY-YY' label of the season that starts in year y
Label(y) == TwoDigits(y % 100) \o <<"-">> \o TwoDigits((y + 1) % 100)

\* a label the WHERE clause of fetch_source_df rejects
BadLabel == <<"2", "0", "0", "3", "-", "0", "4">>

FlatRate == 60

SeasonYears == 1998 .. (1997 + NumSeasons)
LoadedYears == 1998 .. 2002

\* a row of player_peak_season with "CF/60" = "CA/60" = 60
RawRow(p, season, age, toi) ==
  [player |-> p, season |-> season, age |-> age, time_on_ice |-> toi,
   cf_rate |-> Val(FlatRate), ca_rate |-> Val(FlatRate), position |-> "C"]

\* the age a player born in 1973 has in the season that starts in year y
BornAge(y) == Val(y - 1973)

LoadedSource ==
  {RawRow(P, Label(y), BornAge(y), Val(500)) : y \in LoadedYears}
  \cup {RawRow(Q, Label(y), BornAge(y), Val(600)) : y \in LoadedYears}

\* the seasons are loaded but the ice time is not
NoToiSource == {RawRow(P, Label(y), BornAge(y), NULL) : y \in LoadedYears}

\* player P is listed at age a in two seasons: the loaded seasons and the
\* one after them, with the ages of the later seasons one year behind
RepeatedAge(a) ==
  {RawRow(P, Label(y), BornAge(IF y <= 1973 + a THEN y ELSE y - 1), Val(500)) :
     y \in LoadedYears \cup {2003}}

RepeatedAgeSource == RepeatedAge(AnchorAge - 1)

ToiEditYear == 2000

ToiValues == {NULL, Val(0 - 60), Val(0), Val(400), Val(500), Val(600)}

NoRun == [ran |-> FALSE, streak_rows |-> {}, aligned_rows |-> {}, msg |-> "none"]

\* print("No source rows found in view; aborting.") before main returns
NoSourceRows == "No source rows found in view; aborting."

FixIdle == df = EmptyFrame /\ season_in = <<>> /\ fixout = EmptyFrame /\ fixpc = "off"

Init ==
  /\ source \in {{}, LoadedSource, NoToiSource, RepeatedAgeSource}
  /\ streaks = {}
  /\ aligned = {}
  /\ built = NoRun
  /\ edits = 0
  /\ FixIdle /\ StreakIdle /\ ZIdle /\ SeasonIdle /\ AlignIdle /\ ScrapeIdle

Edit(raw) ==
  /\ edits < MaxEdits
  /\ edits' = edits + 1
  /\ source' = raw
  /\ built' = NoRun
  /\ UNCHANGED <<streaks, aligned, fixVars, streakVars, zVars, seasonVars, alignVars, scrapeVars>>

\* the source data gains a season of player p
AddSeason ==
  \E l \in {Label(y) : y \in SeasonYears} \cup {BadLabel} :
    /\ \A r \in source : ~(r.player = P /\ r.season = l)
    /\ LET y == IF l = BadLabel THEN 2003 ELSE season_to_start_year(l)[1]
       IN Edit(source \cup {RawRow(P, l, BornAge(y), Val(500))})

\* the source data loses a season of player p
DropSeason ==
  \E r \in source : r.player = P /\ Edit(source \ {r})

\* the ages of player p are corrected: each was a year too high
ShiftAges ==
  /\ \E r \in source : r.player = P /\ IsNum(r.age)
  /\ Edit({IF r.player = P /\ IsNum(r.age)
           THEN [r EXCEPT !.age = Val(@.v - 1)] ELSE r : r \in source})

\* the last season of player p loses its age or repeats the age of the
\* season before
SetAge ==
  \E r \in source :
    /\ r.player = P /\ IsNum(r.age)
    /\ \A o \in source : o.player = P => ~StrLess(r.season, o.season)
    /\ \E a \in {NULL, Val(r.age.v - 1)} :
         Edit((source \ {r}) \cup {[r EXCEPT !.age = a]})

\* the ice time of player p in the season that starts in ToiEditYear changes
SetToi ==
  \E r \in source :
    /\ r.player = P /\ r.season = Label(ToiEditYear)
    /\ \E t \in ToiValues \ {r.time_on_ice} :
         Edit((source \ {r}) \cup {[r EXCEPT !.time_on_ice = t]})

\* build_player_streaks_and_aligned.main(rebuild): truncate on rebuild, read
\* the view, stop when it is empty (the batch of the run is then empty), else
\* upsert the streak rows and the aligned rows
BuildMain ==
  \E rev \in BOOLEAN :
    /\ LET frame == fetch_source_df(ONE_ROW_VIEW(source), rev)
           parsed == ParsedRows(frame)
       IN built' = IF frame = <<>>
                   THEN [ran |-> TRUE, streak_rows |-> {}, aligned_rows |-> {},
                         msg |-> NoSourceRows]
                   ELSE [ran |-> TRUE,
                         streak_rows |-> streak_rows(parsed),
                         aligned_rows |-> aligned_rows(parsed),
                         msg |-> "upserted"]
    /\ \E rebuild \in BOOLEAN :
         /\ streaks' = Upsert(IF rebuild THEN {} ELSE streaks,
                              built'.streak_rows, StreakKey)
         /\ aligned' = Upsert(IF rebuild THEN {} ELSE aligned,
                              built'.aligned_rows, AlignedKey)
    /\ zbuilt' = NoZRun
    /\ UNCHANGED <<source, edits, ztab, zctab, zruns, fixVars, streakVars, seasonVars, alignVars, scrapeVars>>

Next == AddSeason \/ DropSeason \/ ShiftAges \/ SetAge \/ SetToi \/ BuildMain

Spec == Init /\ [][Next]_vars

\* ---- the aligned window and the streak table, claims C4, C5, C6, C8 ----

\* the seasons of player p that a run reads from the view
SeasonsRead(p) ==
  {r \in ONE_ROW_VIEW(source) :
     r.player = p /\ season_to_start_year(r.season) # <<>>}

HasAllWindowAges(p) ==
  \A i \in DOMAIN WindowAges : \E r \in SeasonsRead(p) : r.age = Val(WindowAges[i])

\* the player's season at age a: the earliest one when the age repeats
SeasonAtAge(p, a) ==
  CHOOSE r \in SeasonsRead(p) :
    /\ r.age = Val(a)
    /\ \A o \in SeasonsRead(p) :
         o.age = Val(a) =>
           season_to_start_year(r.season)[1] <= season_to_start_year(o.season)[1]

WindowToi(p) == [i \in DOMAIN WindowAges |-> SeasonAtAge(p, WindowAges[i]).time_on_ice]

\* the ice-time check as stated: no window season with missing, zero or
\* negative ice time, and an average of at least 500 minutes
PassesIceTimeCheck(p) ==
  /\ \A i \in DOMAIN WindowAges : IsNum(WindowToi(p)[i]) /\ WindowToi(p)[i].v > 0
  /\ SumSeq([i \in DOMAIN WindowAges |-> WindowToi(p)[i].v]) >= Len(WindowAges) * 500

RunAligned(p) == {x \in built.aligned_rows : x.player = p}

\* C4: in one run a player yields 5 aligned rows when the player has a season
\* at each age 25..29 and passes the ice-time check, and none otherwise; the
\* five rows have rel_age = age - 27 covering -2..2 and carry the start year
\* of the age-27 season as peak_year.
C4_ZeroOrFiveAlignedRowsPerRun ==
  built.ran =>
    \A p \in Players :
      IF HasAllWindowAges(p) /\ PassesIceTimeCheck(p)
      THEN /\ Cardinality(RunAligned(p)) = 5
           /\ {x.rel_age : x \in RunAligned(p)} = (0 - 2) .. 2
           /\ \A x \in RunAligned(p) :
                /\ x.rel_age = x.age - 27
                /\ x.peak_year = season_to_start_year(SeasonAtAge(p, 27).season)[1]
      ELSE RunAligned(p) = {}

C6_IceTimeCheckExcludes ==
  built.ran =>
    \A p \in Players :
      HasAllWindowAges(p) =>
        /\ ~PassesIceTimeCheck(p) => RunAligned(p) = {}
        /\ (/\ PassesIceTimeCheck(p)
            /\ SumSeq([i \in DOMAIN WindowAges |-> WindowToi(p)[i].v])
                 = Len(WindowAges) * 500)
             => RunAligned(p) # {}

\* C8: after any sequence of runs and source changes the persisted streak
\* table holds at most one row per player.
C8_AtMostOneStreakRowPerPlayer ==
  \A p \in Players : Cardinality({x \in streaks : x.player = p}) <= 1

\* ------------------------------------ specification of the streak step alone
\* The start years of one player's seasons, and step 5 of main applied to
\* them in some read order.
StreakYears == 1995 .. (1994 + NumStreakYears)

ReadOrders == {"asc", "desc", "dup"}

\* a second label of the WHERE clause's pattern with the same start year
TwinLabel(y) == TwoDigits(y % 100) \o <<"-">> \o TwoDigits((y + 2) % 100)

\* the rows of player p for the years of syears as the database returns them:
\* ascending, descending, or ascending with the first season listed again
\* under its twin label
StreakFrame(order) ==
  LET ys == SortInts(syears)
      asc == [i \in DOMAIN ys |->
                ViewRowOf(RawRow(P, Label(ys[i]), BornAge(ys[i]), Val(500)))]
  IN CASE order = "asc" -> asc
       [] order = "desc" -> Reverse(asc)
       [] OTHER -> asc \o <<ViewRowOf(RawRow(P, TwinLabel(ys[1]), BornAge(ys[1]), Val(500)))>>

StreakInit ==
  /\ syears = {}
  /\ sbuilt = NoStreakRun
  /\ source = {} /\ streaks = {} /\ aligned = {} /\ built = NoRun /\ edits = 0
  /\ FixIdle /\ ZIdle /\ SeasonIdle /\ AlignIdle /\ ScrapeIdle

AddYear ==
  \E y \in StreakYears \ syears :
    /\ syears' = syears \cup {y}
    /\ sbuilt' = NoStreakRun
    /\ UNCHANGED <<fixVars, dbVars, zVars, seasonVars, alignVars, scrapeVars>>

\* steps 4 and 5 of main for the one player
StreakStep ==
  \E order \in ReadOrders :
    /\ syears # {}
    /\ LET mine == RowsOfPlayer(ParsedRows(StreakFrame(order)), P)
       IN sbuilt' = [ran |-> TRUE,
                     rows |-> StreakRowsOf(mine, P),
                     years |-> YearsOf(mine),
                     runs |-> streaks_from_years(YearsOf(mine))]
    /\ UNCHANGED <<syears, fixVars, dbVars, zVars, seasonVars, alignVars, scrapeVars>>

StreakNext == AddYear \/ StreakStep

SpecStreak == StreakInit /\ [][StreakNext]_vars

\* the maximal runs of consecutive start years of syears, as <<first, last>>
MaximalRuns ==
  {r \in StreakYears \X StreakYears :
     /\ r[1] <= r[2]
     /\ \A y \in r[1] .. r[2] : y \in syears
     /\ (r[1] - 1) \notin syears
     /\ (r[2] + 1) \notin syears}

RunLen(r) == r[2] - r[1] + 1

LongestRuns == {r \in MaximalRuns : \A o \in MaximalRuns : RunLen(o) <= RunLen(r)}

\* C7: a streak row is built if and only if the longest maximal run of
\* consecutive distinct start years has length >= 5; the row is then (start,
\* end, length) of the earliest-starting run among those of maximal length.
C7_LongestRunEarliestOnTie ==
  sbuilt.ran =>
    IF \E r \in LongestRuns : RunLen(r) >= 5
    THEN \E r \in LongestRuns :
           /\ \A o \in LongestRuns : r[1] <= o[1]
           /\ Cardinality(sbuilt.rows) = 1
           /\ \A x \in sbuilt.rows :
                /\ x.player = P
                /\ <<x.start_year, x.end_year, x.streak_len>> = <<r[1], r[2], RunLen(r)>>
    ELSE sbuilt.rows = {}

\* two runs share the maximal length, which is at least 5, and a row was built
C7_Witness ==
  /\ sbuilt.ran
  /\ Cardinality(LongestRuns) >= 2
  /\ \E r \in LongestRuns : RunLen(r) >= 5
  /\ sbuilt.rows # {}

\* ------------------------------------------------------ the z-score builds
\* Numbers that SQL computes with a square root are kept exact: a z-score
\* over a population of n values x_1..x_n with D = n * sum(x^2) - sum(x)^2 is
\* [k |-> "z", v |-> n * x - sum(x), n |-> n, d |-> D], which stands for
\* (x - avg) / sqrt(D / (n * (n - 1))).
RECURSIVE SeqOf(_)
SeqOf(S) ==
  IF S = {} THEN <<>>
  ELSE LET e == CHOOSE x \in S : TRUE IN <<e>> \o SeqOf(S \ {e})

\* the values of column c that an aggregate over the rows of part sees: SQL
\* aggregates skip NULL
Seen(part, c) ==
  LET q == SeqOf(part)
  IN SelectSeq([i \in DOMAIN q |-> q[i][c]], LAMBDA x : x # NULL)

HasNaN(vs) == \E i \in DOMAIN vs : vs[i] = NANV

SumOf(vs) == SumSeq([i \in DOMAIN vs |-> vs[i].v])
SumSq(vs) == SumSeq([i \in DOMAIN vs |-> vs[i].v * vs[i].v])

\* AVG(c) OVER (PARTITION ...): NULL over no value, NaN when a value is NaN,
\* else the fraction v / n
AVG(vs) ==
  IF vs = <<>> THEN NULL
  ELSE IF HasNaN(vs) THEN NANV
  ELSE [k |-> "avg", v |-> SumOf(vs), n |-> Len(vs), d |-> 0]

\* STDDEV_SAMP(c) OVER (PARTITION ...): NULL over no value, NaN when a value
\* is NaN, NULL over a single value, else 0 or sqrt(d / (n * (n - 1)))
STDDEV_SAMP(vs) ==
  IF vs = <<>> THEN NULL
  ELSE IF HasNaN(vs) THEN NANV
  ELSE IF Len(vs) <= 1 THEN NULL
  ELSE LET D == Len(vs) * SumSq(vs) - SumOf(vs) * SumOf(vs)
       IN IF D = 0 THEN Val(0) ELSE [k |-> "sd", v |-> 0, n |-> Len(vs), d |-> D]

DivisionByZero == [k |-> "error", v |-> 0, n |-> 0, d |-> 0]

\* (x - avg) / std in SQL: NULL when an operand is NULL, NaN when one is NaN
Standardize(x, avg, std) ==
  IF x = NULL \/ avg = NULL \/ std = NULL THEN NULL
  ELSE IF std = Val(0) THEN DivisionByZero
  ELSE IF x = NANV \/ avg = NANV \/ std = NANV THEN NANV
  ELSE [k |-> "z", v |-> std.n * x.v - avg.v, n |-> std.n, d |-> std.d]

\* a z-score that guards only against a NULL stddev
ZCase_nullonly(x, avg, std) ==
  IF std = NULL THEN NULL ELSE Standardize(x, avg, std)

\* CASE WHEN std IS NULL OR std = 0 THEN NULL ELSE (x - avg) / std END
ZCase(x, avg, std) ==
  IF std = NULL \/ std = Val(0) THEN NULL ELSE Standardize(x, avg, std)

\* COALESCE(z, 0)
Coalesce0(z) == IF z = NULL THEN Val(0) ELSE z

\* unary minus
Negate(z) ==
  IF z.k \in {"z", "num"} THEN [z EXCEPT !.v = 0 - @] ELSE z

\* CASE WHEN std IS NULL OR std = 0 THEN 0 ELSE 1 END
StdCounts(std) == IF std = NULL \/ std = Val(0) THEN 0 ELSE 1

\* (COALESCE(z1, 0) + COALESCE(z2, 0) - COALESCE(z3, 0)) / NULLIF(den, 0),
\* kept as the three terms and the denominator; k tells a number from NULL,
\* NaN and a failed division
SpicyScore(z, std) ==
  LET terms == <<Coalesce0(z[1]), Coalesce0(z[2]), Negate(Coalesce0(z[3]))>>
      den == StdCounts(std[1]) + StdCounts(std[2]) + StdCounts(std[3])
  IN [k |-> IF \E i \in 1 .. 3 : terms[i] = DivisionByZero THEN "error"
            ELSE IF den = 0 THEN "null"
            ELSE IF \E i \in 1 .. 3 : terms[i] = NANV THEN "nan"
            ELSE "num",
      terms |-> terms, den |-> den]

StatCols == <<"cf_pct", "cf60", "ca60">>

\* the rows of the SELECT for one partition: each aligned row of part with
\* its z-scores over part
ZRowsOf(part) ==
  LET vs == <<Seen(part, StatCols[1]), Seen(part, StatCols[2]), Seen(part, StatCols[3])>>
      avg == <<AVG(vs[1]), AVG(vs[2]), AVG(vs[3])>>
      std == <<STDDEV_SAMP(vs[1]), STDDEV_SAMP(vs[2]), STDDEV_SAMP(vs[3])>>
  IN {LET z == <<ZCase(a.cf_pct, avg[1], std[1]),
                 ZCase(a.cf60, avg[2], std[2]),
                 ZCase(a.ca60, avg[3], std[3])>>
      IN [player |-> a.player, position |-> a.position, peak_year |-> a.peak_year,
          rel_age |-> a.rel_age, start_year |-> a.start_year, season |-> a.season,
          age |-> a.age, cf_pct |-> a.cf_pct, cf60 |-> a.cf60, ca60 |-> a.ca60,
          cf_pct_z |-> z[1], cf60_z |-> z[2], ca60_z |-> z[3],
          spicy_score |-> SpicyScore(z, std)] : a \in part}

\* Z_SELECT: PARTITION BY player
Z_SELECT(src) ==
  UNION {ZRowsOf({b \in src : b.player = p}) : p \in {a.player : a \in src}}

\* Z_SELECT_COHORT: PARTITION BY rel_age; the view is joined on its key
\* (player, season), so no row is added or lost, and position is the aligned
\* row's own when it is not NULL
Z_SELECT_COHORT(src) ==
  UNION {ZRowsOf({b \in src : b.rel_age = r}) : r \in {a.rel_age : a \in src}}

\* ------------------------------------- specification of the z-score builds
\* The aligned table is filled by build_player_streaks_and_aligned.main from a
\* table whose "CF/60" column is loaded, corrected or missing; the two z-score
\* builds then read it.
\* rates of "CF/60" that give a whole cf_pct against "CA/60" = 60
RampRates == <<15, 40, 60, 90, 140, 240>>
OddRate == 20

CfRamp(y) == Val(RampRates[((y - 1998) % Len(RampRates)) + 1])

StatRow(p, y, cf) ==
  [RawRow(p, Label(y), BornAge(y), Val(500)) EXCEPT !.cf_rate = cf]

ZFlatSource ==
  {StatRow(P, y, Val(FlatRate)) : y \in SeasonYears}
  \cup {StatRow(Q, y, CfRamp(y)) : y \in LoadedYears}

\* the seasons of player p are loaded but the "CF/60" column is not
ZNoCfSource == {StatRow(P, y, NULL) : y \in SeasonYears}

ZInit ==
  /\ source \in {ZFlatSource, ZNoCfSource}
  /\ streaks = {}
  /\ aligned = {}
  /\ built = NoRun
  /\ edits = 0
  /\ FixIdle /\ StreakIdle /\ ZIdle /\ SeasonIdle /\ AlignIdle /\ ScrapeIdle

\* the missing "CF/60" column of player p is loaded for every season: one
\* rate throughout, or a rate that changes from season to season
LoadStat ==
  \E ramp \in BOOLEAN :
    LET raw == {IF r.player = P
                THEN [r EXCEPT !.cf_rate =
                        IF ramp THEN CfRamp(season_to_start_year(r.season)[1])
                        ELSE Val(FlatRate)]
                ELSE r : r \in source}
    IN /\ \E r \in source : r.player = P
       /\ \A r \in source : r.player = P => r.cf_rate = NULL
       /\ Edit(raw)

\* "CF/60" of player p in the season that starts in ToiEditYear is lost or
\* corrected
SetCf ==
  \E r \in source :
    /\ r.player = P /\ r.season = Label(ToiEditYear)
    /\ \E c \in {NULL, Val(OddRate)} \ {r.cf_rate} :
         Edit((source \ {r}) \cup {[r EXCEPT !.cf_rate = c]})

\* RuntimeError("Source table public.player_five_year_aligned is empty. ...")
SourceEmpty == "RuntimeError: source table is empty"

\* a z-score run that stopped at the COUNT(*) check
ZRunEmpty(cohort) ==
  [ran |-> FALSE, cohort |-> cohort, rows |-> {}, error |-> SourceEmpty, pipeline |-> FALSE]

\* a z-score run that wrote rows
ZRun(cohort, rows, pipeline) ==
  [ran |-> TRUE, cohort |-> cohort, rows |-> rows, error |-> "none", pipeline |-> pipeline]

\* build_player_five_year_aligned_z.main(mode): raise when the aligned table
\* is empty, else write the rows of Z_SELECT after a TRUNCATE (replace) or
\* with ON CONFLICT (player, peak_year, rel_age) DO UPDATE (upsert)
BuildZ ==
  /\ IF aligned = {}
     THEN zbuilt' = ZRunEmpty(FALSE) /\ UNCHANGED <<ztab, zruns>>
     ELSE /\ zruns < MaxZRuns
          /\ zruns' = zruns + 1
          /\ zbuilt' = ZRun(FALSE, Z_SELECT(aligned), FALSE)
          /\ \E mode \in {"upsert", "replace"} :
               ztab' = IF mode = "replace" THEN zbuilt'.rows
                       ELSE Upsert(ztab, zbuilt'.rows, AlignedKey)
  /\ UNCHANGED <<zctab, fixVars, dbVars, streakVars, seasonVars, alignVars, scrapeVars>>

\* build_player_five_year_aligned_z_cohort.build(mode): the same over
\* Z_SELECT_COHORT, into the cohort table
BuildZCohort ==
  /\ IF aligned = {}
     THEN zbuilt' = ZRunEmpty(TRUE) /\ UNCHANGED <<zctab, zruns>>
     ELSE /\ zruns < MaxZRuns
          /\ zruns' = zruns + 1
          /\ zbuilt' = ZRun(TRUE, Z_SELECT_COHORT(aligned), FALSE)
          /\ \E mode \in {"upsert", "replace"} :
               zctab' = IF mode = "replace" THEN zbuilt'.rows
                        ELSE Upsert(zctab, zbuilt'.rows, AlignedKey)
  /\ UNCHANGED <<ztab, fixVars, dbVars, streakVars, seasonVars, alignVars, scrapeVars>>

ZNext == LoadStat \/ SetCf \/ ShiftAges \/ BuildMain \/ BuildZ \/ BuildZCohort

SpecZ == ZInit /\ [][ZNext]_vars

\* the three z components of a written row
ZOf(x) == <<x.cf_pct_z, x.cf60_z, x.ca60_z>>

NonNullZ(x) == {i \in 1 .. 3 : ZOf(x)[i] # NULL}

\* cf_pct_z, cf60_z and -ca60_z, a null component counted as 0
SignedTerms(x) ==
  LET t == [i \in 1 .. 3 |-> IF ZOf(x)[i] = NULL THEN Val(0) ELSE ZOf(x)[i]]
  IN <<t[1], t[2], Negate(t[3])>>

ZeroTerm(t) == t.k \in {"z", "num"} /\ t.v = 0

Population(x) ==
  IF zbuilt.cohort THEN {b \in aligned : b.rel_age = x.rel_age}
  ELSE {b \in aligned : b.player = x.player}

\* the sample standard deviation of column c over part is null (fewer than
\* two values) or exactly zero (all values equal)
StdNullOrZero(part, c) ==
  LET rows == {b \in part : b[c] # NULL}
  IN \/ rows = {}
     \/ /\ \A b \in rows : b[c] # NANV
        /\ \/ Cardinality(rows) < 2
           \/ \A b1, b2 \in rows : b1[c] = b2[c]

\* C10: in both modes, when a population's sample standard deviation of a
\* statistic is null or zero, that statistic's z-score is null for every row
\* of the population; nothing is divided by zero and every aligned row is
\* written.
C10_NullZOnDegenerateStd ==
  zbuilt.ran =>
    /\ {KeyOf(x, AlignedKey) : x \in zbuilt.rows} = {KeyOf(a, AlignedKey) : a \in aligned}
    /\ Cardinality(zbuilt.rows) = Cardinality(aligned)
    /\ \A x \in zbuilt.rows :
         \A i \in 1 .. 3 :
           /\ ZOf(x)[i] # DivisionByZero
           /\ StdNullOrZero(Population(x), StatCols[i]) => ZOf(x)[i] = NULL

\* a build wrote a row whose population has a zero deviation in one statistic
\* (two or more equal values) and a z-score in another
C10_Witness ==
  /\ zbuilt.ran
  /\ \E x \in zbuilt.rows :
       /\ \E i \in 1 .. 3 :
            /\ StdNullOrZero(Population(x), StatCols[i])
            /\ Cardinality({b \in Population(x) : b[StatCols[i]] # NULL}) >= 2
            /\ ZOf(x)[i] = NULL
       /\ \E j \in 1 .. 3 : ZOf(x)[j].k = "z"

\* ------------------------------------------------ claims C11 to C14, SpecZ
\* the five aligned rows of the window a written row belongs to
WindowOf(x) == {b \in aligned : b.player = x.player /\ b.peak_year = x.peak_year}

\* the z-score of column c of row x when the population is part
ZOver(x, c, part) ==
  ZCase(x[c], AVG(Seen(part, c)), STDDEV_SAMP(Seen(part, c)))

Reingest ==
  \E csv \in {{}, ZFlatSource} : csv # source /\ Edit(csv)

\* pipeline.rebuild: main(rebuild=True), then the per-player z build in upsert
\* mode, then the cohort z build in replace mode; the per-player build raises
\* on an empty aligned table and ends the rebuild. The ingest step merges a
\* file that holds what player_peak_season already holds.
pipeline_rebuild ==
  \E rev \in BOOLEAN :
    /\ LET frame == fetch_source_df(ONE_ROW_VIEW(source), rev)
           parsed == ParsedRows(frame)
       IN built' = IF frame = <<>>
                   THEN [ran |-> TRUE, streak_rows |-> {}, aligned_rows |-> {},
                         msg |-> NoSourceRows]
                   ELSE [ran |-> TRUE,
                         streak_rows |-> streak_rows(parsed),
                         aligned_rows |-> aligned_rows(parsed),
                         msg |-> "upserted"]
    /\ streaks' = Upsert({}, built'.streak_rows, StreakKey)
    /\ aligned' = Upsert({}, built'.aligned_rows, AlignedKey)
    /\ IF aligned' = {}
       THEN zbuilt' = ZRunEmpty(FALSE) /\ UNCHANGED <<ztab, zctab, zruns>>
       ELSE /\ zruns < MaxZRuns
            /\ zruns' = zruns + 1
            /\ ztab' = Upsert(ztab, Z_SELECT(aligned'), AlignedKey)
            /\ zbuilt' = ZRun(TRUE, Z_SELECT_COHORT(aligned'), TRUE)
            /\ zctab' = zbuilt'.rows
    /\ UNCHANGED <<source, edits, fixVars, streakVars, seasonVars, alignVars, scrapeVars>>

\* a run of main that a database error ends
Failed == "failed"

\* build_player_streaks_and_aligned.main(rebuild) ended by an error: the
\* TRUNCATE of a rebuild is committed by its own transaction (lines 136-139);
\* an error while the view is read or in the streak upsert leaves both tables
\* as the TRUNCATE left them, an error in the aligned upsert comes after the
\* streak upsert was committed (lines 189-200)
BuildMainFails ==
  \E rev \in BOOLEAN, at \in {"read", "streak_write", "aligned_write"} :
    /\ LET frame == fetch_source_df(ONE_ROW_VIEW(source), rev)
           parsed == ParsedRows(frame)
       IN built' = [ran |-> FALSE,
                    streak_rows |-> IF at = "aligned_write" /\ frame # <<>>
                                    THEN streak_rows(parsed) ELSE {},
                    aligned_rows |-> {},
                    msg |-> Failed]
    /\ \E rebuild \in BOOLEAN :
         /\ streaks' = Upsert(IF rebuild THEN {} ELSE streaks,
                              built'.streak_rows, StreakKey)
         /\ aligned' = IF rebuild THEN {} ELSE aligned
    /\ zbuilt' = NoZRun
    /\ UNCHANGED <<source, edits, ztab, zctab, zruns, fixVars, streakVars, seasonVars, alignVars, scrapeVars>>

\* a z-score build ended by an error in its INSERT: TRUNCATE and INSERT, or
\* the upsert, are one statement batch in one transaction
\* (build_z_replace lines 86-87, build lines 111-112), which is rolled back
BuildZFails ==
  \E cohort \in BOOLEAN :
    /\ zruns < MaxZRuns
    /\ aligned # {}
    /\ zruns' = zruns + 1
    /\ zbuilt' = [ran |-> FALSE, cohort |-> cohort, rows |-> {},
                  error |-> Failed, pipeline |-> FALSE]
    /\ UNCHANGED <<ztab, zctab, fixVars, dbVars, streakVars, seasonVars, alignVars, scrapeVars>>

OpsInit ==
  /\ source \in {{}, ZFlatSource}
  /\ streaks = {}
  /\ aligned = {}
  /\ built = NoRun
  /\ edits = 0
  /\ FixIdle /\ StreakIdle /\ ZIdle /\ SeasonIdle /\ AlignIdle /\ ScrapeIdle

OpsNext ==
  \/ Reingest \/ ShiftAges
  \/ BuildMain \/ BuildZ \/ BuildZCohort
  \/ pipeline_rebuild
  \/ BuildMainFails \/ BuildZFails

SpecOps == OpsInit /\ [][OpsNext]_vars

ZWriteStep == zruns' = zruns + 1 /\ zbuilt'.ran

\* the destination table of the run that zbuilt describes
ZDest(run, pt, ct) == IF run.cohort THEN ct ELSE pt

\* the rows of table t under the keys of the aligned table
UnderSourceKeys(t) ==
  {x \in t : \E a \in aligned : KeyOf(a, AlignedKey) = KeyOf(x, AlignedKey)}

\* C13: a z-score build leaves, in replace mode and in upsert mode alike, for
\* every key (player, peak_year, rel_age) of the source exactly the row that
\* the SELECT computes from the source, and from an empty destination both
\* modes leave exactly the rows of the SELECT.
C13_ReplaceAndUpsertAgree ==
  [][ZWriteStep =>
       /\ UnderSourceKeys(ZDest(zbuilt', ztab', zctab')) = zbuilt'.rows
       /\ ZDest(zbuilt', ztab, zctab) = {} =>
            ZDest(zbuilt', ztab', zctab') = zbuilt'.rows]_vars

\* an upsert wrote over a destination that holds rows of an earlier window:
\* the table is not the one a replace leaves, yet agrees with it on the keys
\* of the source
C13_Witness ==
  /\ zbuilt.ran
  /\ ZDest(zbuilt, ztab, zctab) # zbuilt.rows
  /\ \E x \in zbuilt.rows : \E i \in 1 .. 3 : ZOf(x)[i].k = "z"

\* the step is a run of main that wrote its batch without a TRUNCATE
MainUpsertStep ==
  /\ built'.ran
  /\ zbuilt' = NoZRun
  /\ source' = source
  /\ streaks' = Upsert(streaks, built'.streak_rows, StreakKey)
  /\ aligned' = Upsert(aligned, built'.aligned_rows, AlignedKey)

\* the step is a run of a z-score build in upsert mode
ZUpsertStep ==
  /\ ZWriteStep
  /\ ZDest(zbuilt', ztab', zctab') =
       Upsert(ZDest(zbuilt', ztab, zctab), zbuilt'.rows, AlignedKey)

\* C14: a second run of main without rebuild on the source of the run before
\* it, and a second run of a z-score build in upsert mode on the aligned
\* table of the run before it, leave every destination table as it was: no
\* row is added, lost or changed (created_at apart).
C14_UpsertRerunChangesNothing ==
  [][/\ (built.ran /\ MainUpsertStep) => UNCHANGED <<streaks, aligned>>
     /\ (zbuilt.ran /\ zbuilt.cohort = zbuilt'.cohort /\ ZUpsertStep) =>
          UNCHANGED <<ztab, zctab>>]_vars

\* the source was never changed, main has run and one z-score build has
\* written twice, the other never: the second write was a rerun over the
\* aligned table of the first, and rows have z-scores
C14_Witness ==
  /\ edits = 0 /\ built.ran /\ zbuilt.ran /\ zruns = 2
  /\ ZDest(zbuilt, zctab, ztab) = {}
  /\ \E x \in zbuilt.rows : \E i \in 1 .. 3 : ZOf(x)[i].k = "z"

\* ----------------------------------------- claims C15 and C16, SpecOps
\* the step is a run of main(rebuild=True) that an error ended
FailedRebuildStep ==
  /\ built'.msg = Failed
  /\ zbuilt' = NoZRun
  /\ source' = source
  /\ aligned' = {}
  /\ streaks' = Upsert({}, built'.streak_rows, StreakKey)

\* the step is a run of a z-score build that an error ended
FailedZStep == zruns' = zruns + 1 /\ zbuilt'.error = Failed

\* C15: a run of main with rebuild, or of a z-score build, that fails after
\* it started leaves the committed contents of every destination table as
\* they were before the run.
C15_FailedRunLeavesTablesAsBefore ==
  [][(FailedRebuildStep \/ FailedZStep) =>
       UNCHANGED <<streaks, aligned, ztab, zctab>>]_vars

\* the step is a run of main that found no row in the view
EmptyMainStep == built'.msg = NoSourceRows /\ source' = source

\* the step is a run of a z-score build that found the aligned table empty
EmptyZStep == zbuilt'.error = SourceEmpty /\ aligned' = {}

\* C16: a build whose source is empty stops with a message that names the
\* emptiness, and has then modified no destination table: main leaves the
\* streak and the aligned table as they were, a z-score build leaves the two
\* z-score tables as they were.
C16_EmptySourceWritesNothing ==
  [][/\ EmptyMainStep => UNCHANGED <<streaks, aligned>>
     /\ EmptyZStep => UNCHANGED <<ztab, zctab>>]_vars

\* ------------------------------------ specification of the season resolvers
\* One season label, None or a string, is resolved by season_to_start_year
\* of the streak/alignment build and by parse_start_year of
\* align_age25_age29.

\* re.fullmatch(r"\d{n}", s)
AllDigits(s, n) == Len(s) = n /\ \A i \in 1 .. n : s[i] \in Digits

\* int(s) of a string of digits
RECURSIVE IntOf(_)
IntOf(s) ==
  IF s = <<>> THEN 0
  ELSE 10 * IntOf(SubSeq(s, 1, Len(s) - 1)) + DigitVal(s[Len(s)])

\* a resolver that reads a bare four-digit label as the end year of a season
parse_start_year_endyear(season) ==
  IF season.none THEN <<>>
  ELSE LET s == season.s
       IN IF Len(s) = 5 /\ AllDigits(SubSeq(s, 1, 2), 2) /\ s[3] = "-"
             /\ AllDigits(SubSeq(s, 4, 5), 2)
          THEN <<2000 + IntOf(SubSeq(s, 1, 2))>>
          ELSE IF Len(s) = 7 /\ AllDigits(SubSeq(s, 1, 4), 4) /\ s[5] = "-"
                  /\ AllDigits(SubSeq(s, 6, 7), 2)
          THEN <<IntOf(SubSeq(s, 1, 4))>>
          ELSE IF AllDigits(s, 8) THEN <<IntOf(SubSeq(s, 1, 4))>>
          ELSE IF AllDigits(s, 4) THEN <<IntOf(s) - 1>>
          ELSE <<>>

\* parse_start_year: the four patterns in the order of the code; <<>> stands
\* for None
parse_start_year(season) ==
  IF season.none THEN <<>>
  ELSE LET s == season.s
       IN IF Len(s) = 5 /\ AllDigits(SubSeq(s, 1, 2), 2) /\ s[3] = "-"
             /\ AllDigits(SubSeq(s, 4, 5), 2)
          THEN <<2000 + IntOf(SubSeq(s, 1, 2))>>
          ELSE IF Len(s) = 7 /\ AllDigits(SubSeq(s, 1, 4), 4) /\ s[5] = "-"
                  /\ AllDigits(SubSeq(s, 6, 7), 2)
          THEN <<IntOf(SubSeq(s, 1, 4))>>
          ELSE IF AllDigits(s, 8) THEN <<IntOf(SubSeq(s, 1, 4))>>
          ELSE IF AllDigits(s, 4) THEN <<IntOf(s)>>
          ELSE <<>>

Str(s) == [none |-> FALSE, s |-> s]

FourDigits(y) == TwoDigits(y \div 100) \o TwoDigits(y % 100)

\* the two-digit years, and the four-digit years the labels are drawn from
TwoDigitYears == 0 .. 99
FourDigitYears == {0, 1917, 1949, 1950, 1998, 1999, 2000, 2013, 2049, 2050, 9998}

\* 'YY-YY': every first year, followed by the next year or by 00
ShortLabels ==
  {TwoDigits(a) \o <<"-">> \o TwoDigits(b) :
     <<a, b>> \in {ab \in TwoDigitYears \X TwoDigitYears :
                     ab[2] = (ab[1] + 1) % 100 \/ ab[2] = 0}}

\* 'YYYY-YY', 'YYYYYYYY' and 'YYYY'
LongLabels == {FourDigits(y) \o <<"-">> \o TwoDigits((y + 1) % 100) : y \in FourDigitYears}
EightLabels == {FourDigits(y) \o FourDigits(y + 1) : y \in FourDigitYears}
BareLabels == {FourDigits(y) : y \in FourDigitYears}

\* strings of no pattern
OtherLabels ==
  {<<>>, <<"1", "3">>, <<"1", "3", "-", "1">>, <<"3", "-", "1", "4">>,
   <<"1", "3", " ", "1", "4">>, <<"1", "3", "1", "4", "-">>,
   <<"a", "3", "-", "1", "4">>, <<"1", "3", "-", "1", "4", "-">>,
   <<"2", "0", "1", "-", "1", "4">>, <<"2", "0", "1", "3", "2">>,
   <<"2", "0", "1", "3", "-", "2", "0", "1", "4">>,
   <<"2", "0", "1", "3", ".", "1", "4">>, <<"n", "a", "n">>,
   <<" ", "1", "3", "-", "1", "4">>, <<"T", "O", "T">>}

AllLabels ==
  {NoLabel} \cup {Str(s) : s \in ShortLabels \cup LongLabels \cup EightLabels
                                  \cup BareLabels \cup OtherLabels}

SeasonInit ==
  /\ label \in AllLabels
  /\ resolved = NotResolved
  /\ AlignIdle /\ ScrapeIdle
  /\ source = {} /\ streaks = {} /\ aligned = {} /\ built = NoRun /\ edits = 0
  /\ FixIdle /\ StreakIdle /\ ZIdle

\* season_to_start_year(label); None is falsy like the empty string
ResolveMain ==
  /\ ~resolved.main.ran
  /\ resolved' = [resolved EXCEPT !.main =
                    [ran |-> TRUE,
                     val |-> IF label.none THEN <<>> ELSE season_to_start_year(label.s)]]
  /\ UNCHANGED <<label, fixVars, dbVars, streakVars, zVars, alignVars, scrapeVars>>

\* parse_start_year(label)
ResolveAlign ==
  /\ ~resolved.align.ran
  /\ resolved' = [resolved EXCEPT !.align = [ran |-> TRUE, val |-> parse_start_year(label)]]
  /\ UNCHANGED <<label, fixVars, dbVars, streakVars, zVars, alignVars, scrapeVars>>

SeasonNext == ResolveMain \/ ResolveAlign

SpecSeason == SeasonInit /\ [][SeasonNext]_vars

\* the label is 'YY-YY' with first year a
IsShort(a) ==
  /\ ~label.none
  /\ \E b \in TwoDigitYears : label.s = TwoDigits(a) \o <<"-">> \o TwoDigits(b)

\* C17 as stated: every label 'YY-YY' resolves to 2000 + YY.
C17_AlwaysThe2000s ==
  resolved.main.ran =>
    \A a \in TwoDigitYears : IsShort(a) => resolved.main.val = <<2000 + a>>

\* C17: season_to_start_year resolves a label 'YY-YY' to 2000 + YY when YY is
\* below 50 and to 1900 + YY when YY is 50 or more.
C17_CenturyPivotAt50 ==
  resolved.main.ran =>
    \A a \in TwoDigitYears :
      IsShort(a) => resolved.main.val = IF a >= 50 THEN <<1900 + a>> ELSE <<2000 + a>>

\* a label of the second half of a century was resolved to the 1900s
C17_Witness ==
  /\ resolved.main.ran
  /\ IsShort(98)
  /\ resolved.main.val = <<1998>>

\* the label is 'YYYY-YY', 'YYYYYYYY' or 'YYYY' with first four digits y
IsLongOf(y) ==
  /\ ~label.none
  /\ \/ \E b \in TwoDigitYears : label.s = FourDigits(y) \o <<"-">> \o TwoDigits(b)
     \/ /\ Len(label.s) = 8
        /\ SubSeq(label.s, 1, 4) = FourDigits(y)
        /\ \A i \in 5 .. 8 : label.s[i] \in Digits
     \/ label.s = FourDigits(y)

\* C18: parse_start_year maps 'YY-YY' to 2000 + YY, 'YYYY-YY' and an
\* eight-digit label to the number of the first four digits, a bare
\* four-digit label to its number, and every other input, None included, to
\* a missing value.
C18_ParseStartYear ==
  resolved.align.ran =>
    IF \E a \in TwoDigitYears : IsShort(a)
    THEN \A a \in TwoDigitYears : IsShort(a) => resolved.align.val = <<2000 + a>>
    ELSE IF \E y \in FourDigitYears : IsLongOf(y)
    THEN \A y \in FourDigitYears : IsLongOf(y) => resolved.align.val = <<y>>
    ELSE resolved.align.val = <<>>

\* a bare four-digit label was resolved to its own number
C18_Witness ==
  /\ resolved.align.ran
  /\ label = Str(FourDigits(2013))
  /\ resolved.align.val = <<2013>>

\* ------------------------------------------------ claim on _mode_or_first
\* the groups pass 2 of fix_std_one_file turns into a synthetic TOT row
SynthKeys(e) ==
  {k \in Keys(e.rows) :
     /\ Len(Group(e.rows, k)) > 1
     /\ \A r \in Range(Group(e.rows, k)) : ~_NTM_RE(r.tm)}

Occurrences(s, v) == Cardinality({i \in DOMAIN s : s[i] = v})

MostFrequent(s) ==
  {v \in Range(s) : \A w \in Range(s) : Occurrences(s, w) <= Occurrences(s, v)}

\* the most frequent value of s that occurs first in s
FirstMostFrequent(s) ==
  s[CHOOSE i \in DOMAIN s :
      /\ s[i] \in MostFrequent(s)
      /\ \A j \in 1 .. (i - 1) : s[j] \notin MostFrequent(s)]

PosOf(g) == [i \in DOMAIN g |-> g[i].pos]

\* C19: the position of a synthetic TOT row is the most frequent position of
\* the group's rows and, among equally frequent positions, the one that
\* occurs first in the group's row order.
C19_SyntheticPosFirstMostFrequent ==
  fixpc = "done" =>
    LET e == Prepared(df, season_in)
    IN (KeysResolved(e) /\ HasCol(e, "pos")) =>
         \A k \in SynthKeys(e) :
           \A i \in OutRowsOf(k) :
             fixout.rows[i].pos = FirstMostFrequent(PosOf(Group(e.rows, k)))

\* the position of a synthetic TOT row is one of the most frequent positions
\* of its group
C19_SyntheticPosIsAMode ==
  fixpc = "done" =>
    LET e == Prepared(df, season_in)
    IN (KeysResolved(e) /\ HasCol(e, "pos")) =>
         \A k \in SynthKeys(e) :
           \A i \in OutRowsOf(k) :
             fixout.rows[i].pos \in MostFrequent(PosOf(Group(e.rows, k)))

\* ------------------------------------- tests/test_fix_std_one_season.py
\* DataFrame.assign(season=s): the one-season frame the fixer is handed
assign_season(frame, s) ==
  [cols |-> IF HasCol(frame, "season") THEN frame.cols
            ELSE Append(frame.cols, "season"),
   rows |-> [i \in DOMAIN frame.rows |-> [frame.rows[i] EXCEPT !.season = s]]]

\* the key normalisation at the head of fix_one_season_std
TestTidyRow(r) ==
  [r EXCEPT !.player = Lower(rstrip(@)),
            !.season = rstrip(@),
            !.tm     = Upper(rstrip(@))]

TestTidy(e) == [e EXCEPT !.rows = [i \in DOMAIN e.rows |-> TestTidyRow(e.rows[i])]]

Returned(e) == [raised |-> "none", frame |-> e]
Raised(err) == [raised |-> err, frame |-> EmptyFrame]

\* fix_one_season_std: in pass 2 the frame "multi" holds the columns player
\* and season only, so the merged frame has no column "rows" and
\* drop(columns=["_merge", "rows"]) raises KeyError whenever a group is left
\* with several rows after pass 1
fix_one_season_std(frame) ==
  IF frame.rows = <<>> THEN Returned(frame)
  ELSE IF ~(HasCol(frame, "player") /\ HasCol(frame, "season") /\ HasCol(frame, "tm"))
  THEN Raised("ValueError")
  ELSE
    LET e1 == TestTidy(frame)
        e2 == [e1 EXCEPT !.rows = Pass1(e1.rows)]
        multi == {k \in Keys(e2.rows) : Len(Group(e2.rows, k)) > 1}
    IN IF multi # {} THEN Raised("KeyError")
       ELSE Returned([e2 EXCEPT !.rows = Unwrap(drop_duplicates(e2.rows))])

TestExits == {"returned", "ValueError", "KeyError"}

\* step 6 of the test module's main: the fixer runs on the season's frame
FixOneSeasonStd ==
  /\ fixpc = "input"
  /\ \E s \in SeasonStrs :
       /\ season_in' = s
       /\ LET r == fix_one_season_std(assign_season(df, s))
          IN /\ fixout' = r.frame
             /\ fixpc' = IF r.raised = "none" THEN "returned" ELSE r.raised
  /\ UNCHANGED <<df, dbVars, streakVars, zVars, seasonVars, alignVars, scrapeVars>>

TestNext == AddRow \/ FixOneSeasonStd

SpecTest == FixInit /\ [][TestNext]_vars

\* ------------------------------------------- claim on fix_one_season_std
TestInput == TestTidy(assign_season(df, season_in))

TestKeyed == HasCol(df, "player") /\ HasCol(df, "tm")

NtmRows(g) == SelectSeq(g, LAMBDA r : _NTM_RE(r.tm))

\* C20: for every one-season frame with player, season and tm columns,
\* fix_one_season_std returns without raising a frame with exactly one row per
\* (player, season): a group with an nTM row keeps exactly that row
\* relabelled 'TOT', and a multi-team group with no nTM row becomes one
\* synthetic 'TOT' row whose numeric columns are the group sums.
C20_TestFixerOneRowPerPlayerSeason ==
  (fixpc \in TestExits /\ TestKeyed) =>
    /\ fixpc = "returned"
    /\ \A k \in Keys(TestInput.rows) :
         LET g == Group(TestInput.rows, k)
         IN /\ Cardinality(OutRowsOf(k)) = 1
            /\ \A i \in OutRowsOf(k) :
                 /\ NtmRows(g) # <<>> =>
                      fixout.rows[i] = [NtmRows(g)[1] EXCEPT !.tm = TOT]
                 /\ (NtmRows(g) = <<>> /\ Len(g) > 1) =>
                      /\ fixout.rows[i].tm = TOT
                      /\ \A c \in NumericCols :
                           fixout.rows[i][c] = Num(GroupTotal(TestInput.rows, k, c))

\* whenever fix_one_season_std returns, no group was left for pass 2 and the
\* frame has exactly one row per (player, season), the nTM row where there
\* is one
C20_ReturnedFrameIsCollapsed ==
  (fixpc = "returned" /\ TestKeyed) =>
    \A k \in Keys(TestInput.rows) :
      LET g == Group(TestInput.rows, k)
      IN /\ NtmRows(g) # <<>> \/ Len(g) = 1
         /\ Cardinality(OutRowsOf(k)) = 1
         /\ \A i \in OutRowsOf(k) :
              NtmRows(g) # <<>> => fixout.rows[i] = [NtmRows(g)[1] EXCEPT !.tm = TOT]

\* ---------------------------------------------- claim on streaks_from_years
RunYears(runs) == UNION {runs[i][1] .. runs[i][2] : i \in DOMAIN runs}

\* C21: for every list of years, in any order and with duplicates,
\* streaks_from_years returns runs (start, end, length) in ascending order
\* with length = end - start + 1, a gap between consecutive runs (next start
\* > previous end + 1) and the distinct input years as the union of the
\* runs' intervals; the empty list yields no runs.
C21_RunsPartitionTheYears ==
  /\ streaks_from_years(<<>>) = <<>>
  /\ sbuilt.ran =>
       /\ \A i \in DOMAIN sbuilt.runs :
            /\ sbuilt.runs[i][1] <= sbuilt.runs[i][2]
            /\ sbuilt.runs[i][3] = sbuilt.runs[i][2] - sbuilt.runs[i][1] + 1
       /\ \A i \in 1 .. (Len(sbuilt.runs) - 1) :
            sbuilt.runs[i + 1][1] > sbuilt.runs[i][2] + 1
       /\ RunYears(sbuilt.runs) = Range(sbuilt.years)

\* the function has run on a list that is not ascending and holds a year
\* twice, and returned three runs, one of them longer than a single year
C21_Witness ==
  /\ sbuilt.ran
  /\ Len(sbuilt.years) > Cardinality(Range(sbuilt.years))
  /\ \E i \in 1 .. (Len(sbuilt.years) - 1) : sbuilt.years[i + 1] < sbuilt.years[i]
  /\ Len(sbuilt.runs) = 3
  /\ \E i \in DOMAIN sbuilt.runs : sbuilt.runs[i][3] > 1

\* ------------------------------------------- claims on the aligned batch
StartYearOf(r) == season_to_start_year(r.season)[1]

\* the seasons of player p read at age a
SeasonsAtAge(p, a) == {r \in SeasonsRead(p) : r.age = Val(a)}

LabelsOfYear(p, y) == {r.season : r \in {o \in SeasonsRead(p) : StartYearOf(o) = y}}

\* the years of a player's longest run for which step 5 finds no metrics
\* row and falls back to a synthesized label
SynthYears(mine) ==
  LET runs == streaks_from_years(YearsOf(mine))
  IN IF runs = <<>> THEN {}
     ELSE {y \in MaxRun(runs)[1] .. MaxRun(runs)[2] : Metrics(mine, y) = <<>>}

\* C23: every streak row of a run has exactly streak_len = end_year -
\* start_year + 1 season entries, the i-th being the player's own label of
\* the season that starts in start_year + i (counting from 0); the branch
\* that synthesizes a 'YY-YY' label is never taken.
C23_StreakSeasonsAreOwnLabels ==
  built.ran =>
    /\ \A x \in built.streak_rows :
         /\ x.streak_len = x.end_year - x.start_year + 1
         /\ Len(x.seasons) = x.streak_len
         /\ \A i \in DOMAIN x.seasons :
              x.seasons[i] \in LabelsOfYear(x.player, x.start_year + i - 1)
    /\ \A rev \in BOOLEAN :
         LET parsed == ParsedRows(fetch_source_df(ONE_ROW_VIEW(source), rev))
         IN \A p \in PlayersOf(parsed) : SynthYears(RowsOfPlayer(parsed, p)) = {}

\* a run has built the streak row of a run of six seasons, next to a season
\* of the player that the read leaves out
C23_Witness ==
  /\ built.ran
  /\ \E x \in built.streak_rows :
       /\ x.streak_len = 6
       /\ Len(x.seasons) = 6
       /\ \E r \in source : r.player = x.player /\ r.season = BadLabel

\* --------------------------------------------------- align_age25_age29.py
\* steps 1 and 2 of build_aligned_df: the rows of the view with the derived
\* start year; the age filter keeps the rows whose age is a number in 25..29
AlignFrame(view) ==
  {[player |-> r.player, season |-> r.season, age |-> r.age,
    start_year |-> parse_start_year(Str(r.season))] : r \in view}

InWindow(r) == IsNum(r.age) /\ r.age.v >= WindowAges[1] /\ r.age.v <= WindowAges[Len(WindowAges)]

\* mask_complete: the players whose ages have 5 distinct values with minimum
\* 25 and maximum 29
CompletePlayers(rows) ==
  {p \in {r.player : r \in rows} :
     LET ages == {r.age.v : r \in {x \in rows : x.player = p}}
     IN /\ Cardinality(ages) = Len(WindowAges)
        /\ \A a \in ages : a >= WindowAges[1]
        /\ \A a \in ages : a <= WindowAges[Len(WindowAges)]}

\* the (player, start_year) pairs of the age-27 rows after drop_duplicates
PeakPairs(rows) == {<<r.player, r.start_year>> : r \in {x \in rows : x.age = Val(AnchorAge)}}

\* build_aligned_df: Series.map with peak_year_map raises InvalidIndexError
\* when a player is listed twice in the map's index; the two ice-time
\* columns of the output, computed row by row, are left out
build_aligned_df(view) ==
  LET kept == {r \in AlignFrame(view) : InWindow(r)}
      done == {r \in kept : r.player \in CompletePlayers(kept)}
      peak == PeakPairs(done)
  IN IF \E x, y \in peak : x[1] = y[1] /\ x # y
     THEN [ran |-> TRUE, raised |-> "InvalidIndexError", rows |-> {}]
     ELSE [ran |-> TRUE, raised |-> "none",
           rows |-> {[player |-> r.player,
                      peak_year |-> (CHOOSE x \in peak : x[1] = r.player)[2],
                      rel_age |-> r.age.v - AnchorAge,
                      start_year |-> r.start_year,
                      season |-> r.season,
                      age |-> r.age.v] : r \in done}]

AlignInit ==
  /\ source \in {{}, LoadedSource} \cup {RepeatedAge(WindowAges[i]) : i \in DOMAIN WindowAges}
  /\ streaks = {}
  /\ aligned = {}
  /\ built = NoRun
  /\ edits = 0
  /\ FixIdle /\ StreakIdle /\ ZIdle /\ SeasonIdle /\ AlignIdle /\ ScrapeIdle

\* main of align_age25_age29: build the frame from the view
BuildAlignedDf ==
  /\ df_out' = build_aligned_df(ONE_ROW_VIEW(source))
  /\ UNCHANGED <<fixVars, dbVars, streakVars, zVars, seasonVars, scrapeVars>>

AlignNext == AddSeason \/ DropSeason \/ ShiftAges \/ SetAge \/ BuildAlignedDf

SpecAlign == AlignInit /\ [][AlignNext]_vars

\* C24: build_aligned_df returns, for each player it retains, exactly 5
\* rows, one for each age 25..29, with a single peak_year per player, and
\* never raises because a player has two seasons at the same age.
C24_FiveRowsPerRetainedPlayer ==
  df_out.ran =>
    /\ df_out.raised = "none"
    /\ \A p \in {x.player : x \in df_out.rows} :
         LET mine == {x \in df_out.rows : x.player = p}
         IN /\ Cardinality(mine) = 5
            /\ \A i \in DOMAIN WindowAges :
                 Cardinality({x \in mine : x.age = WindowAges[i]}) = 1
            /\ Cardinality({x.peak_year : x \in mine}) = 1

\* whenever build_aligned_df returns, each retained player has a row at each
\* age 25..29 and a single peak_year
C24_RetainedPlayersCoverTheWindow ==
  (df_out.ran /\ df_out.raised = "none") =>
    \A p \in {x.player : x \in df_out.rows} :
      LET mine == {x \in df_out.rows : x.player = p}
      IN /\ {x.age : x \in mine} = Range(WindowAges)
         /\ Cardinality({x.peak_year : x \in mine}) = 1

\* C25: every aligned row of a run has start_year = peak_year + rel_age: the
\* five seasons of a window are five consecutive start years centred on the
\* age-27 season.
C25_WindowIsFiveConsecutiveYears ==
  built.ran =>
    \A x \in built.aligned_rows : x.start_year = x.peak_year + x.rel_age

\* ------------------------------------ further claims on the collapser
\* C26: when fix_std_one_file synthesizes a TOT row for a multi-team group
\* whose rows all carry the same age, the synthesized row carries that age.
C26_SyntheticRowKeepsCommonAge ==
  fixpc = "done" =>
    LET e == Prepared(df, season_in)
    IN (KeysResolved(e) /\ HasCol(e, "age")) =>
         \A k \in SynthKeys(e) :
           LET g == Group(e.rows, k)
           IN (\A i \in DOMAIN g : g[i].age = g[1].age) =>
                \A i \in OutRowsOf(k) : fixout.rows[i].age = g[1].age

\* C27: fix_std_one_file neither loses nor invents player-seasons: for every
\* input frame that has the key columns, the (normalized player, season)
\* pairs of its output are exactly those of its input.
C27_PlayerSeasonsPreserved ==
  fixpc = "done" =>
    LET e == Prepared(df, season_in)
    IN KeysResolved(e) => Keys(fixout.rows) = Keys(e.rows)

\* a frame with two players has been fixed, one group through its nTM row
\* and one through a synthetic row
C27_Witness ==
  /\ fixpc = "done"
  /\ df.cols = FullCols
  /\ LET e == Prepared(df, season_in)
     IN /\ Cardinality(Keys(e.rows)) = 2
        /\ SynthKeys(e) # {}
        /\ \E i \in DOMAIN e.rows : _NTM_RE(e.rows[i].tm)

\* no two rows of the batch have the same key
KeysDistinct(batch, key) ==
  \A x, y \in batch : KeyOf(x, key) = KeyOf(y, key) => x = y

\* C28: in every run of main the batch of streak rows has no two rows with
\* the same (player, start_year, end_year) and the batch of aligned rows no
\* two rows with the same (player, peak_year, rel_age), so that no INSERT ...
\* ON CONFLICT statement targets a destination row twice.
C28_BatchKeysDistinct ==
  built.ran =>
    /\ KeysDistinct(built.streak_rows, StreakKey)
    /\ KeysDistinct(built.aligned_rows, AlignedKey)
    /\ \A p \in Players :
         /\ Cardinality({x \in built.streak_rows : x.player = p}) <= 1
         /\ Cardinality({x \in built.aligned_rows : x.player = p}) \in {0, 5}

\* a run has built the streak rows and the windows of two players, on top of
\* rows that an earlier state of the source left in the tables
C28_Witness ==
  /\ built.ran
  /\ Cardinality(built.streak_rows) = 2
  /\ Cardinality(built.aligned_rows) = 10
  /\ edits > 0
  /\ built.aligned_rows # aligned

\* ------------------------------------- another_try.py, another_try_pg2.py
\* The scraper's main: log in with one retry, walk to the skaters page,
\* scrape, and quit the driver in the finally block. drivers lists the
\* browser drivers make_driver has created, in order; driver is main's
\* local variable, 0 for None.
LoginSteps ==
  <<"step1_open_home", "step2_click_ad_free_login", "step3_login",
    "step4_verify_back_on_home">>

MainSteps ==
  <<"step5_open_seasons_dropdown", "step6_click_skaters_for_season",
    "step7_wait_for_skaters_page", "scrape_one_season", "to_csv">>

InvalidSession == "InvalidSessionIdException"

Exceptions == {InvalidSession, "TimeoutException", "WebDriverException"}

IndexIn(seq, x) == CHOOSE i \in DOMAIN seq : seq[i] = x

\* a wrapper that restarts the browser on any exception of the first attempt
Retries_any(e, n) == n = 1

\* except InvalidSessionIdException around the first run(d) only
Retries(e, n) == n = 1 /\ e = InvalidSession

\* driver.quit() inside suppress(Exception)
QuitOutcomes == {"quit", "quit_raised"}

ScrapeInit ==
  /\ spc = "start" /\ drivers = <<>> /\ attempts = 0
  /\ login_raised = <<>> /\ exc = "none" /\ driver = 0
  /\ source = {} /\ streaks = {} /\ aligned = {} /\ built = NoRun /\ edits = 0
  /\ FixIdle /\ StreakIdle /\ ZIdle /\ SeasonIdle /\ AlignIdle

\* main leaves through sys.exit when the credentials are placeholders
MainExit ==
  /\ spc = "start"
  /\ spc' = "exit"
  /\ UNCHANGED <<drivers, attempts, login_raised, exc, driver>>
  /\ UNCHANGED <<fixVars, dbVars, streakVars, zVars, seasonVars, alignVars>>

\* d = make_driver(), which may raise before a browser exists
MakeFirstDriver ==
  /\ spc = "start"
  /\ \/ /\ drivers' = <<"live">>
        /\ attempts' = 1
        /\ spc' = LoginSteps[1]
        /\ UNCHANGED exc
     \/ /\ exc' = "WebDriverException"
        /\ spc' = "finally"
        /\ UNCHANGED <<drivers, attempts>>
  /\ UNCHANGED <<login_raised, driver>>
  /\ UNCHANGED <<fixVars, dbVars, streakVars, zVars, seasonVars, alignVars>>

\* a step of run(d) succeeds; after step 4 the wrapper returns the driver
\* and main binds it
LoginStepOk ==
  /\ spc \in Range(LoginSteps)
  /\ LET i == IndexIn(LoginSteps, spc)
     IN IF i < Len(LoginSteps)
        THEN spc' = LoginSteps[i + 1] /\ UNCHANGED driver
        ELSE spc' = MainSteps[1] /\ driver' = Len(drivers)
  /\ UNCHANGED <<drivers, attempts, login_raised, exc>>
  /\ UNCHANGED <<fixVars, dbVars, streakVars, zVars, seasonVars, alignVars>>

\* a step of run(d) raises: the first attempt's InvalidSessionIdException is
\* caught, anything else leaves the wrapper and reaches main's finally
LoginStepRaises ==
  /\ spc \in Range(LoginSteps)
  /\ \E e \in Exceptions :
       /\ login_raised' = Append(login_raised, [step |-> spc, exc |-> e])
       /\ IF Retries(e, attempts)
          THEN spc' = "quit_first" /\ UNCHANGED exc
          ELSE spc' = "finally" /\ exc' = e
  /\ UNCHANGED <<drivers, attempts, driver>>
  /\ UNCHANGED <<fixVars, dbVars, streakVars, zVars, seasonVars, alignVars>>

\* with suppress(Exception): d.quit()
QuitFirstDriver ==
  /\ spc = "quit_first"
  /\ \E q \in QuitOutcomes : drivers' = [drivers EXCEPT ![1] = q]
  /\ spc' = "make_second"
  /\ UNCHANGED <<attempts, login_raised, exc, driver>>
  /\ UNCHANGED <<fixVars, dbVars, streakVars, zVars, seasonVars, alignVars>>

\* d2 = make_driver(); return run(d2)
MakeSecondDriver ==
  /\ spc = "make_second"
  /\ \/ /\ drivers' = Append(drivers, "live")
        /\ attempts' = attempts + 1
        /\ spc' = LoginSteps[1]
        /\ UNCHANGED exc
     \/ /\ exc' = "WebDriverException"
        /\ spc' = "finally"
        /\ UNCHANGED <<drivers, attempts>>
  /\ UNCHANGED <<login_raised, driver>>
  /\ UNCHANGED <<fixVars, dbVars, streakVars, zVars, seasonVars, alignVars>>

\* a step of main after the login succeeds
MainStepOk ==
  /\ spc \in Range(MainSteps)
  /\ LET i == IndexIn(MainSteps, spc)
     IN spc' = IF i < Len(MainSteps) THEN MainSteps[i + 1] ELSE "finally"
  /\ UNCHANGED <<drivers, attempts, login_raised, exc, driver>>
  /\ UNCHANGED <<fixVars, dbVars, streakVars, zVars, seasonVars, alignVars>>

\* a step of main after the login raises
MainStepRaises ==
  /\ spc \in Range(MainSteps)
  /\ \E e \in Exceptions : exc' = e
  /\ spc' = "finally"
  /\ UNCHANGED <<drivers, attempts, login_raised, driver>>
  /\ UNCHANGED <<fixVars, dbVars, streakVars, zVars, seasonVars, alignVars>>

\* finally: if driver: with suppress(Exception): driver.quit()
Finally ==
  /\ spc = "finally"
  /\ IF driver # 0
     THEN \E q \in QuitOutcomes : drivers' = [drivers EXCEPT ![driver] = q]
     ELSE UNCHANGED drivers
  /\ spc' = IF exc = "none" THEN "returned" ELSE "propagated"
  /\ UNCHANGED <<attempts, login_raised, exc, driver>>
  /\ UNCHANGED <<fixVars, dbVars, streakVars, zVars, seasonVars, alignVars>>

ScrapeNext ==
  \/ MainExit \/ MakeFirstDriver \/ LoginStepOk \/ LoginStepRaises
  \/ QuitFirstDriver \/ MakeSecondDriver \/ MainStepOk \/ MainStepRaises
  \/ Finally

SpecScrape == ScrapeInit /\ [][ScrapeNext]_vars

\* -------------------------------------------------- claims on the scraper
MainEnded == spc \in {"returned", "propagated"}

\* C29: do_login_flow_with_retry runs the login steps at most twice; the
\* second attempt, on a fresh driver, is made only when the first attempt
\* raised InvalidSessionIdException and only after the first driver has
\* been asked to quit; any other exception of the first attempt and any
\* exception of the second attempt propagates with no further retry.
C29_LoginRetriedOnceOnDeadSession ==
  /\ attempts <= 2
  /\ Len(login_raised) <= attempts
  /\ attempts = 2 =>
       /\ Len(login_raised) >= 1
       /\ login_raised[1].exc = InvalidSession
       /\ Len(drivers) = 2
       /\ drivers[1] \in QuitOutcomes
  /\ (Len(login_raised) = 1 /\ login_raised[1].exc # InvalidSession) =>
       /\ attempts = 1
       /\ exc = login_raised[1].exc
       /\ spc \in {"finally", "propagated"}
  /\ Len(login_raised) = 2 =>
       /\ exc = login_raised[2].exc
       /\ spc \in {"finally", "propagated"}

\* the second attempt raised InvalidSessionIdException as the first had, and
\* the exception left main
C29_Witness ==
  /\ spc = "propagated"
  /\ attempts = 2
  /\ Len(login_raised) = 2
  /\ login_raised[2].exc = InvalidSession

\* C30: every driver make_driver created during main has been quit when
\* main returns or propagates an exception, whichever step failed.
C30_EveryDriverQuit ==
  MainEnded => \A i \in DOMAIN drivers : drivers[i] \in QuitOutcomes

\* when main ends with a driver bound to its local variable, that driver has
\* been asked to quit
C30_BoundDriverQuit ==
  (MainEnded /\ driver # 0) => drivers[driver] \in QuitOutcomes

====
